---- MODULE Spec2Model ----
(***************************************************************************)
(* Model of the smart-audit import portal: the in-memory Execution store,  *)
(* the upload / validate / convert / mapeo stage endpoints with their      *)
(* background tasks, the manual-mapping endpoint and the field mapper.     *)
(*                                                                         *)
(* Scheduling.  The HTTP layer is one event loop.  A handler that has no   *)
(* real suspension point runs as one step.  Every stage background task is *)
(* an `async def` whose awaits only call coroutines with synchronous       *)
(* bodies, so once a task has begun nothing else runs until it returns:    *)
(* `running` holds the task that owns the loop.  Between the handler that  *)
(* schedules a task and the beginning of that task the response is sent,   *)
(* which yields to the loop, so other requests and other tasks can come in *)
(* between: `pending` holds the tasks scheduled and not yet begun.         *)
(***************************************************************************)
EXTENDS Integers, Sequences, FiniteSets, TLC

\* ---------------------------------------------------------------- bounds
MaxPending == 2

\* ------------------------------------------------------------- constants
\* sizes are counted in MiB
max_file_size == 100
large_file_threshold == 50

ExecIds == {"e1"}
None == "None"

Sizes == {1, 60, 101}

\* HTTP status codes
HTTP_200 == 200
HTTP_400 == 400
HTTP_404 == 404
HTTP_413 == 413
HTTP_500 == 500

VARIABLES store, pending, running, resp, upload_progress, result_table, mapper,
          loader, config_hash, scratch, json, tester, blob

vars == <<store, pending, running, resp, upload_progress, result_table, mapper,
          loader, config_hash, scratch, json, tester, blob>>

\* ------------------------------------------------------ Execution record
NoExec == [exists |-> FALSE]

NoMapeo == [present |-> FALSE]

\* the optional fields: a flag is "None", "True" or "False", a count is
\* NoCount when it is None
NoCount == -1
Flag(b) == IF b THEN "True" ELSE "False"

\* the name of the uploaded file
original_filename == "book.csv"

\* ExecutionStatus as create_coordinated_execution builds it: the model
\* class has no file_type, test_type, project_id, period or
\* parent_execution_id field, so the constructor drops those arguments
NewExecution(fp) ==
  [exists |-> TRUE, status |-> "pending", step |-> None,
   file_name |-> original_filename, file_path |-> fp, error |-> None, stats |-> None, result_path |-> None,
   mapeo_results |-> NoMapeo, manual_mapping_required |-> None,
   unmapped_fields_count |-> NoCount]

allowed_fields ==
  {"status", "step", "file_path", "result_path", "error", "stats",
   "file_type", "test_type", "project_id", "period", "parent_execution_id",
   "mapeo_results", "manual_mapping_required", "unmapped_fields_count",
   "file_name"}

\* update_execution: merge the recognised keyword arguments that are fields
\* of the record, keep every other field
update_execution(st, id, kwargs) ==
  [st EXCEPT ![id] =
     [k \in DOMAIN st[id] |->
        IF k \in DOMAIN kwargs /\ k \in allowed_fields
        THEN kwargs[k] ELSE st[id][k]]]

Known(id) == store[id].exists

\* --------------------------------------------------------------- tasks
NoTask == [kind |-> "none", id |-> None]
Task(k, id) == [kind |-> k, id |-> id]

Remove(s, i) == [j \in 1..(Len(s) - 1) |-> IF j < i THEN s[j] ELSE s[j + 1]]

Idle == running = NoTask

add_task(t) == pending' = Append(pending, t)

Response(op, id, code) == [op |-> op, id |-> id, code |-> code]

NoTracker == [status |-> "none", progress |-> 0]

IdleMapper == [pc |-> "idle"]

\* ------------------------------------------- the components at rest
\* DynamicFieldLoader.__init__ up to the call of _initialize
NewLoader(auto_reload) ==
  [pc |-> "constructed", status |-> "uninitialized",
   auto_reload_enabled |-> auto_reload,
   field_definitions_cache |-> {}, backup_definitions |-> {},
   last_config_hash |-> 0, reload_count |-> 0, last_error |-> None,
   success |-> None, old_status |-> None, returned |-> None,
   reload_thread |-> "none"]

\* no stage service call in progress, no scratch file on disk
NoStage ==
  [kind |-> "none", pc |-> "idle", held |-> <<>>, files |-> {},
   raised |-> FALSE]

\* no value handed to safe_json_response
NoValue == [pc |-> "none"]

\* no model loaded for the structure prediction
NoTester == [pc |-> "none"]

\* no call of the storage service in progress
NoBlob == [pc |-> "none"]

ComponentsAtRest ==
  /\ loader = NewLoader(TRUE)
  /\ config_hash = 1
  /\ scratch = NoStage
  /\ tester = NoTester
  /\ blob = NoBlob
  /\ json = NoValue

\* ---------------------------------------------------------- field mapper
\* A table is a sequence of columns.  A column is what the mapper reads of
\* it: `name`, the set of the keywords its lower-cased name contains;
\* `bm`, the best match _find_best_match_with_content computes from the
\* configured synonyms and the sample values (NoMatch when it returns None);
\* `spread`, whether its numeric values have std > 1 and |mean| > 1; `bal`,
\* the quality score the balance validator gives it as a journal id on the
\* raw table; `gbal`, the same on the table renamed by the session mappings.
\* Confidences and scores are integers counting thousandths.
FieldTypes ==
  {"journal_entry_id", "line_number", "description", "line_description",
   "posting_date", "fiscal_year", "period_number", "gl_account_number",
   "amount", "debit_amount", "credit_amount", "debit_credit_indicator",
   "prepared_by", "entry_date", "entry_time", "gl_account_name", "vendor_id"}

NoMatch == [field_type |-> None, confidence |-> 0]
Match(ft, c) == [field_type |-> ft, confidence |-> c]

amount_priority_keywords ==
  {"amount", "importe", "saldo", "debe", "haber", "debit", "credit"}
amount_indicators == {"saldo", "balance", "importe", "amount", "total"}
local_indicators == {"local", "loc.", "ml", "lm"}

specificity_keywords(ft) ==
  CASE ft = "amount" -> {"saldo", "balance", "importe", "amount"}
    [] ft = "journal_entry_id" -> {"asiento", "journal"}
    [] ft = "posting_date" -> {"fecha", "date"}
    [] OTHER -> {}

\* the session state of a FieldMapper: _used_field_mappings (0: not used),
\* _confidence_by_column (-1: absent) and the caller's initial_mappings with
\* its insertion order
NewSession(n) ==
  [used |-> [ft \in FieldTypes |-> 0],
   cconf |-> [c \in 1..n |-> -1],
   imap |-> [c \in 1..n |-> NoMatch],
   iorder |-> <<>>]

confidence_by_column(S, c) == IF S.cconf[c] = -1 THEN 0 ELSE S.cconf[c]

\* _evaluate_journal_entry_id_balance_score: the confidence itself unless the
\* raw sample table has columns literally named as amount fields
evaluate_balance_score(tbl, c, conf) ==
  IF tbl.raw_amounts THEN tbl.cols[c].bal ELSE conf

\* _resolve_journal_entry_id_conflict_with_balance_validation, scaled by 10
jei_should_reassign(tbl, new, existing, new_conf, existing_conf) ==
  7 * evaluate_balance_score(tbl, new, new_conf) + 3 * new_conf
    > 7 * evaluate_balance_score(tbl, existing, existing_conf) + 3 * existing_conf

is_better_amount_candidate(col) ==
  (col.name \cap amount_indicators # {}) /\ col.spread

has_better_field_name(new, existing, ft) ==
  Cardinality(new.name \cap specificity_keywords(ft))
    > Cardinality(existing.name \cap specificity_keywords(ft))

\* the decision of _resolve_mapping_conflict when ft is already claimed
should_reassign(tbl, S, c, ft, conf) ==
  LET existing == S.used[ft]
      existing_conf == confidence_by_column(S, existing)
  IN IF ft = "journal_entry_id"
     THEN jei_should_reassign(tbl, c, existing, conf, existing_conf)
     ELSE IF conf > existing_conf + 200 THEN TRUE
     ELSE IF ft = "amount" THEN is_better_amount_candidate(tbl.cols[c])
     ELSE has_better_field_name(tbl.cols[c], tbl.cols[existing], ft)

Claim(S, c, ft, conf) ==
  [S EXCEPT !.used[ft] = c, !.cconf[c] = conf]

\* find_field_mapping: the session after the call and the value returned
find_field_mapping(tbl, S, c) ==
  LET col == tbl.cols[c]
      bm == col.bm
  IN IF /\ col.name \cap {"cabecera", "header"} # {}
        /\ "description" \in col.name
        /\ S.used["description"] = 0
     THEN [S |-> Claim(S, c, "description", 950), res |-> Match("description", 950)]
     ELSE IF bm = NoMatch
     THEN [S |-> S, res |-> NoMatch]
     ELSE IF S.used[bm.field_type] = 0
     THEN [S |-> Claim(S, c, bm.field_type, bm.confidence), res |-> bm]
     ELSE IF should_reassign(tbl, S, c, bm.field_type, bm.confidence)
     THEN [S |-> Claim([S EXCEPT !.cconf[S.used[bm.field_type]] = -1],
                        c, bm.field_type, bm.confidence),
           res |-> bm]
     ELSE [S |-> S, res |-> NoMatch]

\* one iteration of either loop of map_all_columns_with_conflict_resolution
map_column(tbl, S, c) ==
  LET r == find_field_mapping(tbl, S, c)
  IN IF r.res = NoMatch THEN r.S
     ELSE [r.S EXCEPT !.imap[c] = r.res, !.iorder = Append(@, c)]

in_amount_priority(col) == col.name \cap amount_priority_keywords # {}

\* highest confidence, the first of the candidates on a tie (stable sort)
RECURSIVE highest_confidence(_, _)
highest_confidence(S, cands) ==
  IF Len(cands) = 1 THEN cands[1]
  ELSE LET rest == highest_confidence(S, Tail(cands))
       IN IF S.imap[cands[1]].confidence >= S.imap[rest].confidence
          THEN cands[1] ELSE rest

RECURSIVE best_balance(_, _)
best_balance(tbl, cands) ==
  IF Len(cands) = 1 THEN cands[1]
  ELSE LET rest == best_balance(tbl, Tail(cands))
       IN IF tbl.cols[cands[1]].gbal >= tbl.cols[rest].gbal
          THEN cands[1] ELSE rest

\* _check_mapped_amount_fields
check_mapped_amount_fields(S) ==
  {ft \in {"debit_amount", "credit_amount", "amount"} :
     S.used[ft] # 0 /\ confidence_by_column(S, S.used[ft]) >= 750}

first_local(tbl, cands) ==
  LET loc == {i \in 1..Len(cands) : tbl.cols[cands[i]].name \cap local_indicators # {}}
  IN IF loc = {} THEN 0 ELSE cands[CHOOSE i \in loc : \A j \in loc : i <= j]

\* _resolve_field_type_conflict: the winner and how it was chosen
resolve_field_type_conflict(tbl, S, ft, cands) ==
  IF ft = "journal_entry_id"
  THEN IF check_mapped_amount_fields(S) = {}
       THEN [col |-> highest_confidence(S, cands), how |-> "highest_confidence"]
       ELSE [col |-> best_balance(tbl, cands), how |-> "balance_validation_winner"]
  ELSE IF ft = "amount" /\ first_local(tbl, cands) # 0
  THEN [col |-> first_local(tbl, cands), how |-> "amount_local_priority"]
  ELSE [col |-> highest_confidence(S, cands), how |-> "highest_confidence"]

candidates(S, ft) == SelectSeq(S.iorder, LAMBDA c : S.imap[c].field_type = ft)

NoFinal == [field_type |-> None, confidence |-> 0, resolution_type |-> None]

\* a global pass that keeps every initial mapping
resolve_global_keep_all(tbl, S) ==
  [c \in 1..Len(tbl.cols) |->
     IF S.imap[c] = NoMatch THEN NoFinal
     ELSE [field_type |-> S.imap[c].field_type,
           confidence |-> S.imap[c].confidence,
           resolution_type |-> "no_conflict"]]

\* _resolve_global_field_conflicts: one winner per field type
resolve_global_field_conflicts(tbl, S) ==
  [c \in 1..Len(tbl.cols) |->
     LET ft == S.imap[c].field_type
     IN IF ft = None THEN NoFinal
        ELSE LET cands == candidates(S, ft)
             IN IF Len(cands) = 1
                THEN [field_type |-> ft, confidence |-> S.imap[c].confidence,
                      resolution_type |-> "no_conflict"]
                ELSE LET w == resolve_field_type_conflict(tbl, S, ft, cands)
                     IN IF w.col = c
                        THEN [field_type |-> ft, confidence |-> S.imap[c].confidence,
                              resolution_type |-> w.how]
                        ELSE NoFinal]

\* map_all_columns_with_conflict_resolution: the columns in amount_priority
\* first, then every column that has no initial mapping yet
RECURSIVE map_columns(_, _, _, _)
map_columns(tbl, S, c, priority) ==
  IF c > Len(tbl.cols) THEN S
  ELSE LET skip == IF priority THEN ~in_amount_priority(tbl.cols[c])
                   ELSE S.imap[c] # NoMatch
       IN map_columns(tbl, IF skip THEN S ELSE map_column(tbl, S, c), c + 1, priority)

initial_mappings(tbl) ==
  map_columns(tbl, map_columns(tbl, NewSession(Len(tbl.cols)), 1, TRUE), 1, FALSE)

map_all_columns_with_conflict_resolution(tbl) ==
  resolve_global_field_conflicts(tbl, initial_mappings(tbl))

\* ---------------------------------------------------- the mapper, stepwise
NumCols == 2

Confs == {700, 750, 1000}

Col(name, bm, spread, bal, gbal) ==
  [name |-> name, bm |-> bm, spread |-> spread, bal |-> bal, gbal |-> gbal]

ColumnKinds ==
  {Col({}, NoMatch, FALSE, 0, 0)}
  \cup {Col(n, Match("amount", c), sp, 0, 0) :
          n \in SUBSET {"saldo", "local"}, c \in Confs, sp \in BOOLEAN}
  \cup {Col(n, Match("posting_date", c), FALSE, 0, 0) :
          n \in SUBSET {"fecha"}, c \in Confs}
  \cup {Col({"asiento"}, Match("journal_entry_id", c), FALSE, b, g) :
          c \in Confs, b \in {100, 1000}, g \in {0, 1000}}
  \cup {Col({"cabecera", "description"}, Match("description", 750), FALSE, 0, 0),
        Col({"description"}, Match("description", 1000), FALSE, 0, 0)}

\* a column whose name has no amount indicator is never asked for its spread
RealKind(k) == k.spread => (k.name \cap amount_indicators # {})

Tables(n) ==
  {[cols |-> cs, raw_amounts |-> r] :
     cs \in [1..n -> {k \in ColumnKinds : RealKind(k)}], r \in BOOLEAN}

MapperInit ==
  /\ store = [id \in ExecIds |-> NoExec]
  /\ pending = <<>>
  /\ running = NoTask
  /\ resp = Response("none", None, 0)
  /\ upload_progress = [id \in ExecIds |-> NoTracker]
  /\ result_table = [id \in ExecIds |-> 0]
  /\ ComponentsAtRest
  /\ \E tbl \in Tables(NumCols) :
       mapper = [pc |-> "priority", tbl |-> tbl, idx |-> 1,
                 S |-> NewSession(NumCols),
                 final |-> [c \in 1..NumCols |-> NoFinal]]

PipelineUnchanged ==
  UNCHANGED <<store, pending, running, resp, upload_progress, result_table,
              loader, config_hash, scratch, json, tester, blob>>

\* one iteration of the amount_priority loop
map_priority_column ==
  /\ mapper.pc = "priority"
  /\ mapper.idx <= Len(mapper.tbl.cols)
  /\ mapper' = [mapper EXCEPT
       !.S = IF in_amount_priority(mapper.tbl.cols[mapper.idx])
             THEN map_column(mapper.tbl, mapper.S, mapper.idx) ELSE @,
       !.idx = IF mapper.idx = Len(mapper.tbl.cols) THEN 1 ELSE @ + 1,
       !.pc = IF mapper.idx = Len(mapper.tbl.cols) THEN "all" ELSE @]
  /\ PipelineUnchanged

\* one iteration of the loop over df.columns
map_remaining_column ==
  /\ mapper.pc = "all"
  /\ mapper.idx <= Len(mapper.tbl.cols)
  /\ mapper' = [mapper EXCEPT
       !.S = IF mapper.S.imap[mapper.idx] # NoMatch THEN @
             ELSE map_column(mapper.tbl, mapper.S, mapper.idx),
       !.idx = IF mapper.idx = Len(mapper.tbl.cols) THEN 1 ELSE @ + 1,
       !.pc = IF mapper.idx = Len(mapper.tbl.cols) THEN "global" ELSE @]
  /\ PipelineUnchanged

\* the global conflict pass and the return
resolve_global ==
  /\ mapper.pc = "global"
  /\ mapper' = [mapper EXCEPT
       !.final = resolve_global_field_conflicts(mapper.tbl, mapper.S),
       !.pc = "done"]
  /\ PipelineUnchanged

MapperNext ==
  \/ map_priority_column
  \/ map_remaining_column
  \/ resolve_global

SpecMapper == MapperInit /\ [][MapperNext]_vars

\* ------------------------------------------------------- best match
Min(a, b) == IF a <= b THEN a ELSE b

\* _find_exact_matches: the confidence of a synonym found under any ERP
generic_synonym_confidence(boost) == Min(850 + boost \div 10, 1000)

IndexOf(ms, ft) ==
  IF \E i \in 1..Len(ms) : ms[i].field_type = ft
  THEN CHOOSE i \in 1..Len(ms) : ms[i].field_type = ft
  ELSE 0

\* the loop of _find_best_match_with_content over content_analysis: a type
\* already among the candidates is blended 0.7 / 0.3, a new one enters at 0.8
RECURSIVE merge_content(_, _)
merge_content(cands, content) ==
  IF content = <<>> THEN cands
  ELSE LET m == Head(content)
           i == IndexOf(cands, m.field_type)
           merged ==
             IF m.field_type \notin FieldTypes THEN cands
             ELSE IF i # 0
             THEN [cands EXCEPT ![i].confidence =
                     Min((7 * @ + 3 * m.confidence) \div 10, 1000)]
             ELSE Append(cands, Match(m.field_type, (8 * m.confidence) \div 10))
       IN merge_content(merged, Tail(content))

\* max(all_candidates.keys(), key=...): the first of the highest
RECURSIVE first_max(_)
first_max(ms) ==
  IF Len(ms) = 1 THEN ms[1]
  ELSE LET rest == first_max(Tail(ms))
       IN IF ms[1].confidence >= rest.confidence THEN ms[1] ELSE rest

find_best_match_with_content(exact_matches, content_analysis) ==
  LET all_candidates == merge_content(exact_matches, content_analysis)
  IN IF all_candidates = <<>> THEN NoMatch
     ELSE LET best == first_max(all_candidates)
          IN IF best.confidence < 300 THEN NoMatch ELSE best

\* ---------------------------------------------------- converted tables
\* The tables a conversion can leave at result_path.  None has a column
\* literally named as an amount field; `balanced` tells whether total debit
\* and total credit agree within the tolerance.
\* Ledger: Asiento, Fecha, Cuenta, Debe, Haber with the default synonyms
\* (boost 0.9, 0.9, 0.9, 0.95, 0.95) and the content analysis of a balanced
\* ledger: name patterns, date values, numeric account codes and amounts.
Ledger ==
  [cols |-> <<
     Col({"asiento"},
         find_best_match_with_content(
           <<Match("journal_entry_id", generic_synonym_confidence(900))>>,
           <<Match("journal_entry_id", 900)>>), FALSE, 0, 1000),
     Col({"fecha"},
         find_best_match_with_content(
           <<Match("posting_date", generic_synonym_confidence(900))>>,
           <<Match("posting_date", 900), Match("entry_date", 850)>>), FALSE, 0, 0),
     Col({"cuenta"},
         find_best_match_with_content(
           <<Match("gl_account_number", generic_synonym_confidence(900))>>,
           <<Match("amount", 900), Match("gl_account_number", 900)>>), FALSE, 0, 0),
     Col({"debe"},
         find_best_match_with_content(
           <<Match("debit_amount", generic_synonym_confidence(950))>>,
           <<Match("debit_amount", 950)>>), FALSE, 0, 0),
     Col({"haber"},
         find_best_match_with_content(
           <<Match("credit_amount", generic_synonym_confidence(950))>>,
           <<Match("debit_amount", 800), Match("credit_amount", 950)>>), FALSE, 0, 0)>>,
   raw_amounts |-> FALSE, balanced |-> TRUE]

\* journal id, date and one amount column found with confidence `c`
AmountTable(c, balanced) ==
  [cols |-> <<Col({"asiento"}, Match("journal_entry_id", 940), FALSE, 0, 1000),
              Col({"fecha"}, Match("posting_date", 940), FALSE, 0, 0),
              Col({"importe"}, Match("amount", c), TRUE, 0, 0)>>,
   raw_amounts |-> FALSE, balanced |-> balanced]

\* no column is recognised
Unknown ==
  [cols |-> <<Col({}, NoMatch, FALSE, 0, 0), Col({}, NoMatch, FALSE, 0, 0)>>,
   raw_amounts |-> FALSE, balanced |-> FALSE]

PipelineTables == <<Ledger, AmountTable(945, TRUE), AmountTable(700, TRUE), Unknown>>

\* --------------------------------------------------------- mapeo session
confidence_threshold == 750

NoDecision ==
  [field_type |-> None, confidence |-> 0, decision_type |-> None,
   resolution_type |-> None]

\* a filter that accepts every proposal
accept_every_mapping(final) == final

\* _apply_confidence_filter_with_tracking: the accepted mappings
accepted_mappings(final) ==
  [c \in DOMAIN final |->
     IF final[c].field_type # None /\ final[c].confidence >= confidence_threshold
     THEN final[c] ELSE NoFinal]

\* the rejected mappings of the same filter
rejected_mappings(final) ==
  [c \in DOMAIN final |->
     IF final[c].field_type # None /\ final[c].confidence < confidence_threshold
     THEN final[c] ELSE NoFinal]

\* f'automatic_{resolution_type}'
automatic(resolution_type) ==
  CASE resolution_type = "no_conflict" -> "automatic_no_conflict"
    [] resolution_type = "highest_confidence" -> "automatic_highest_confidence"
    [] resolution_type = "balance_validation_winner" ->
         "automatic_balance_validation_winner"
    [] OTHER -> "automatic_amount_local_priority"

\* _update_user_decisions_from_mappings
update_user_decisions_from_mappings(mappings) ==
  [c \in DOMAIN mappings |->
     IF mappings[c].field_type = None THEN NoDecision
     ELSE [field_type |-> mappings[c].field_type,
           confidence |-> mappings[c].confidence,
           decision_type |-> automatic(mappings[c].resolution_type),
           resolution_type |-> mappings[c].resolution_type]]

mapped_columns(ud) == {c \in DOMAIN ud : ud[c].field_type # None}
mapped_fields(ud) == {ud[c].field_type : c \in mapped_columns(ud)}

RECURSIVE sum_confidence(_, _)
sum_confidence(ud, cs) ==
  IF cs = {} THEN 0
  ELSE LET c == CHOOSE x \in cs : TRUE
       IN ud[c].confidence + sum_confidence(ud, cs \ {c})

\* average confidence of the decisions below `limit`; `empty` is the answer
\* when there is no decision
average_below(ud, limit, empty) ==
  IF mapped_columns(ud) = {} THEN empty
  ELSE sum_confidence(ud, mapped_columns(ud)) < limit * Cardinality(mapped_columns(ud))

\* critical fields that leave the amount out
critical_fields_without_amount == {"journal_entry_id", "posting_date"}

critical_fields == {"journal_entry_id", "amount", "posting_date"}

\* process_numeric_fields_and_calculate_amounts: the fields of the renamed
\* table after the derivation
process_numeric_fields(fields) ==
  LET has_amount == "amount" \in fields
      has_debit == "debit_amount" \in fields
      has_credit == "credit_amount" \in fields
  IN IF ~has_amount /\ has_debit /\ has_credit THEN fields \cup {"amount"}
     ELSE IF has_amount /\ ~has_debit /\ ~has_credit
     THEN fields \cup {"debit_amount", "credit_amount"}
     ELSE fields

\* _perform_balance_validation: is_balanced of the balance report
perform_balance_validation(tbl, ud) ==
  LET fields == process_numeric_fields(mapped_fields(ud))
  IN IF "journal_entry_id" \notin fields THEN TRUE
     ELSE IF {"debit_amount", "credit_amount"} \subseteq fields THEN tbl.balanced
     ELSE FALSE

header_field_definitions ==
  {"journal_entry_id", "posting_date", "fiscal_year", "period_number",
   "prepared_by", "entry_date", "entry_time", "description"}

detail_field_definitions ==
  {"journal_entry_id", "line_number", "line_description", "gl_account_number",
   "gl_account_name", "amount", "debit_amount", "credit_amount",
   "debit_credit_indicator", "vendor_id"}

\* create_header_detail_csvs: a local file for each group that has a field
create_header_detail_csvs(ud) ==
  LET fields == process_numeric_fields(mapped_fields(ud))
  IN [header_file |-> IF fields \cap header_field_definitions # {} THEN "local" ELSE None,
      detail_file |-> IF fields \cap detail_field_definitions # {} THEN "local" ELSE None]

\* _prepare_final_result: the result of the session
prepare_final_result(tbl, ud, rejected) ==
  LET unmapped_columns == Len(tbl.cols) - Cardinality(mapped_columns(ud))
      csv_result == create_header_detail_csvs(ud)
  IN [present |-> TRUE,
      user_decisions |-> ud,
      rejected_mappings |-> rejected,
      is_balanced |-> perform_balance_validation(tbl, ud),
      header_file |-> csv_result.header_file,
      detail_file |-> csv_result.detail_file,
      report_file |-> "local",
      manual_mapping_required |->
        \/ unmapped_columns > 0
        \/ critical_fields \ mapped_fields(ud) # {}
        \/ average_below(ud, 600, FALSE),
      unmapped_fields_count |-> unmapped_columns,
      manual_mappings |-> 0]

\* run_automatic_mapeo
run_automatic_mapeo(tbl) ==
  LET final == map_all_columns_with_conflict_resolution(tbl)
      ud == update_user_decisions_from_mappings(accepted_mappings(final))
  IN prepare_final_result(tbl, ud, rejected_mappings(final))

\* ---------------------------------------------------------- mapeo service
\* a completeness analysis that does not look at the critical fields
analyze_without_critical_fields(tbl, ud) ==
  LET unmapped_columns == (1..Len(tbl.cols)) \ mapped_columns(ud)
  IN [unmapped_count |-> Cardinality(unmapped_columns),
      missing_critical_fields |-> {},
      manual_mapping_required |->
        \/ unmapped_columns # {}
        \/ average_below(ud, 700, TRUE)]

\* _analyze_mapping_completeness
analyze_mapping_completeness(tbl, ud) ==
  LET unmapped_columns == (1..Len(tbl.cols)) \ mapped_columns(ud)
      missing_critical == critical_fields \ mapped_fields(ud)
  IN [unmapped_count |-> Cardinality(unmapped_columns),
      missing_critical_fields |-> missing_critical,
      manual_mapping_required |->
        \/ unmapped_columns # {}
        \/ missing_critical # {}
        \/ average_below(ud, 700, TRUE)]

\* _upload_mapeo_results: each local file is replaced by its blob when the
\* upload succeeds and kept when it fails
upload_mapeo_results(result, storage_ok) ==
  IF ~storage_ok THEN result
  ELSE [result EXCEPT
          !.header_file = IF @ = "local" THEN "azure" ELSE @,
          !.detail_file = IF @ = "local" THEN "azure" ELSE @,
          !.report_file = "azure"]

\* run_mapeo, when the session succeeds
run_mapeo(tbl, storage_ok) ==
  LET mapeo_result == run_automatic_mapeo(tbl)
      completeness == analyze_mapping_completeness(tbl, mapeo_result.user_decisions)
  IN upload_mapeo_results(
       [mapeo_result EXCEPT
          !.manual_mapping_required = completeness.manual_mapping_required,
          !.unmapped_fields_count = completeness.unmapped_count],
       storage_ok)

\* run_mapeo on each of the converted tables
mapeo_results_of ==
  [t \in 1..Len(PipelineTables), storage_ok \in BOOLEAN |->
     run_mapeo(PipelineTables[t], storage_ok)]

\* ------------------------------------------------------------------ Init
Init ==
  /\ store = [id \in ExecIds |-> NoExec]
  /\ pending = <<>>
  /\ running = NoTask
  /\ resp = Response("none", None, 0)
  /\ upload_progress = [id \in ExecIds |-> NoTracker]
  /\ result_table = [id \in ExecIds |-> 0]
  /\ mapper = IdleMapper
  /\ ComponentsAtRest

\* ---------------------------------------------------------------- upload
\* upload_file: the record is created first; every later failure, the 413
\* of an oversized file included, is raised inside the try block whose
\* `except Exception` deletes the record and answers 500
UploadRaised(size, storage_ok) ==
  IF size > max_file_size THEN HTTP_413
  ELSE IF ~storage_ok THEN HTTP_500
  ELSE HTTP_200

UploadOutcome(size, storage_ok) ==
  IF UploadRaised(size, storage_ok) # HTTP_200 THEN HTTP_500 ELSE HTTP_200

upload_file(id, size, storage_ok) ==
  /\ Idle
  /\ ~Known(id)
  /\ LET code == UploadOutcome(size, storage_ok)
         large == size > large_file_threshold
     IN /\ resp' = Response("upload", id, code)
        /\ IF code = HTTP_200
           THEN /\ IF large
                   THEN /\ Len(pending) < MaxPending
                        /\ add_task(Task("upload", id))
                        /\ store' = [store EXCEPT ![id] =
                                       NewExecution("uploading_to_azure")]
                   ELSE /\ pending' = pending
                        /\ store' = [store EXCEPT ![id] = NewExecution("blob")]
           ELSE /\ pending' = pending
                /\ store' = [store EXCEPT ![id] = NoExec]
  /\ UNCHANGED <<running, upload_progress, result_table, mapper, loader, config_hash, scratch, json, tester, blob>>

\* upload_large_file_background, up to the chunked upload
upload_begin(i) ==
  /\ Idle
  /\ i \in 1..Len(pending)
  /\ pending[i].kind = "upload"
  /\ running' = pending[i]
  /\ pending' = Remove(pending, i)
  /\ upload_progress' = [upload_progress EXCEPT ![pending[i].id] =
                           [status |-> "starting", progress |-> 0]]
  /\ UNCHANGED <<store, resp, result_table, mapper, loader, config_hash, scratch, json, tester, blob>>

\* upload_large_file_background, after the chunked upload returned or raised
upload_finish(ok) ==
  /\ running.kind = "upload"
  /\ LET id == running.id IN
       IF ok
       THEN /\ store' = update_execution(store, id, [file_path |-> "blob"])
            /\ upload_progress' = [upload_progress EXCEPT ![id].status = "completed"]
       ELSE /\ store' = update_execution(store, id, [error |-> "Upload failed"])
            /\ upload_progress' = [upload_progress EXCEPT ![id].status = "failed"]
  /\ running' = NoTask
  /\ UNCHANGED <<pending, resp, result_table, mapper, loader, config_hash, scratch, json, tester, blob>>

\* ------------------------------------------------------------ validation
\* validate_import: only get_execution guards the request
validate_import(id) ==
  /\ Idle
  /\ IF ~Known(id)
     THEN /\ resp' = Response("validate", id, HTTP_404)
          /\ pending' = pending
     ELSE /\ Len(pending) < MaxPending
          /\ add_task(Task("validation", id))
          /\ resp' = Response("validate", id, HTTP_200)
  /\ UNCHANGED <<store, running, upload_progress, result_table, mapper, loader, config_hash, scratch, json, tester, blob>>

validate_begin(i) ==
  /\ Idle
  /\ i \in 1..Len(pending)
  /\ pending[i].kind = "validation"
  /\ running' = pending[i]
  /\ pending' = Remove(pending, i)
  /\ store' = update_execution(store, pending[i].id,
                 [status |-> "processing", step |-> "validation"])
  /\ UNCHANGED <<resp, upload_progress, result_table, mapper, loader, config_hash, scratch, json, tester, blob>>

\* the file can be read only once it is a stored blob
validate_finish(ok) ==
  /\ running.kind = "validation"
  /\ LET id == running.id IN
       IF ok /\ store[id].file_path = "blob"
       THEN store' = update_execution(store, id,
                       [status |-> "completed", step |-> "validation",
                        stats |-> "validation_stats"])
       ELSE store' = update_execution(store, id,
                       [status |-> "failed", error |-> "Validation error"])
  /\ running' = NoTask
  /\ UNCHANGED <<pending, resp, upload_progress, result_table, mapper, loader, config_hash, scratch, json, tester, blob>>

\* ------------------------------------------------------------ conversion
\* a guard that also lets a failed Execution through
ConvertReadyOrFailed(e) ==
  \/ e.status = "completed" /\ e.step = "validation"
  \/ e.status = "failed"

\* a guard that only looks at the status
ConvertReadyStatusOnly(e) == e.status = "completed"

ConvertReady(e) == e.status = "completed" /\ e.step = "validation"

convert_import(id) ==
  /\ Idle
  /\ IF ~Known(id)
     THEN /\ resp' = Response("convert", id, HTTP_404)
          /\ pending' = pending
     ELSE IF ~ConvertReady(store[id])
     THEN /\ resp' = Response("convert", id, HTTP_400)
          /\ pending' = pending
     ELSE /\ Len(pending) < MaxPending
          /\ add_task(Task("conversion", id))
          /\ resp' = Response("convert", id, HTTP_200)
  /\ UNCHANGED <<store, running, upload_progress, result_table, mapper, loader, config_hash, scratch, json, tester, blob>>

\* convert_file_background: the two updates before the conversion call
convert_begin(i) ==
  /\ Idle
  /\ i \in 1..Len(pending)
  /\ pending[i].kind = "conversion"
  /\ running' = pending[i]
  /\ pending' = Remove(pending, i)
  /\ store' = update_execution(
                 update_execution(store, pending[i].id,
                    [status |-> "processing", step |-> "conversion"]),
                 pending[i].id, [step |-> "model_prediction"])
  /\ UNCHANGED <<resp, upload_progress, result_table, mapper, loader, config_hash, scratch, json, tester, blob>>

\* convert_file_background, after the conversion returned table `t` or
\* raised; converting the same file again gives the same table
convert_finish(ok, t) ==
  /\ running.kind = "conversion"
  /\ LET id == running.id IN
       IF ok /\ store[id].file_path = "blob"
       THEN /\ result_table[id] \in {0, t}
            /\ result_table' = [result_table EXCEPT ![id] = t]
            /\ store' = update_execution(store, id,
                          [status |-> "completed", step |-> "conversion_completed",
                           result_path |-> "result", stats |-> "conversion_stats"])
       ELSE /\ result_table' = result_table
            /\ store' = update_execution(store, id,
                          [status |-> "failed", error |-> "Conversion process error"])
  /\ running' = NoTask
  /\ UNCHANGED <<pending, resp, upload_progress, mapper, loader, config_hash, scratch, json, tester, blob>>

\* ----------------------------------------------------------------- mapeo
\* a guard that only looks at the status
MapeoReadyStatusOnly(e) == e.status = "completed"

MapeoReady(e) == e.status = "completed" /\ e.step = "conversion_completed"

start_automatic_mapeo(id) ==
  /\ Idle
  /\ IF ~Known(id)
     THEN /\ resp' = Response("mapeo", id, HTTP_404)
          /\ pending' = pending
     ELSE IF ~MapeoReady(store[id])
     THEN /\ resp' = Response("mapeo", id, HTTP_400)
          /\ pending' = pending
     ELSE IF store[id].result_path = None
     THEN /\ resp' = Response("mapeo", id, HTTP_404)
          /\ pending' = pending
     ELSE /\ Len(pending) < MaxPending
          /\ add_task(Task("mapeo", id))
          /\ resp' = Response("mapeo", id, HTTP_200)
  /\ UNCHANGED <<store, running, upload_progress, result_table, mapper, loader, config_hash, scratch, json, tester, blob>>

\* run_mapeo_background: the first update
mapeo_begin(i) ==
  /\ Idle
  /\ i \in 1..Len(pending)
  /\ pending[i].kind = "mapeo"
  /\ running' = pending[i]
  /\ pending' = Remove(pending, i)
  /\ store' = update_execution(store, pending[i].id,
                 [status |-> "processing", step |-> "mapeo"])
  /\ UNCHANGED <<resp, upload_progress, result_table, mapper, loader, config_hash, scratch, json, tester, blob>>

\* run_mapeo_background, after run_mapeo returned: `ok` tells whether the
\* result file could be fetched and read, `storage_ok` whether the result
\* files could be stored
mapeo_finish(ok, storage_ok) ==
  /\ running.kind = "mapeo"
  /\ LET id == running.id IN
       IF ok /\ store[id].result_path # None /\ result_table[id] # 0
       THEN LET mapeo_result == mapeo_results_of[result_table[id], storage_ok]
            IN IF mapeo_result.manual_mapping_required
               THEN store' = update_execution(store, id,
                      [status |-> "completed",
                       step |-> "mapeo_completed_manual_required",
                       mapeo_results |-> mapeo_result,
                       manual_mapping_required |-> Flag(TRUE),
                       unmapped_fields_count |-> mapeo_result.unmapped_fields_count])
               ELSE store' = update_execution(store, id,
                      [status |-> "completed", step |-> "mapeo_completed",
                       mapeo_results |-> mapeo_result,
                       manual_mapping_required |-> Flag(FALSE),
                       unmapped_fields_count |-> 0])
       ELSE store' = update_execution(store, id,
                       [status |-> "failed", step |-> "mapeo_failed",
                        error |-> "Mapeo error"])
  /\ running' = NoTask
  /\ UNCHANGED <<pending, resp, upload_progress, result_table, mapper, loader, config_hash, scratch, json, tester, blob>>

\* -------------------------------------------------------- manual mapping
MaxManual == 1

manual_confidence == 800

ManualFields == {"amount"}

MappingDecision(c, ft) == [column_name |-> c, selected_field |-> ft]

\* the requests: up to two mapping decisions on the last column of a table
\* of n columns
ManualRequests(n) ==
  LET Ds == {MappingDecision(n, ft) : ft \in ManualFields}
  IN {<<>>} \cup {<<d>> : d \in Ds} \cup {<<d1, d2>> : d1 \in Ds, d2 \in Ds}

\* the requests that can be sent about Execution id
RequestsFor(id) ==
  IF Known(id) /\ store[id].mapeo_results.present
  THEN ManualRequests(Len(store[id].mapeo_results.user_decisions))
  ELSE {<<>>}

\* the loop of apply_manual_mapping over the request
RECURSIVE apply_mappings(_, _)
apply_mappings(acc, mappings) ==
  IF mappings = <<>> THEN acc
  ELSE LET m == Head(mappings)
       IN apply_mappings(
            IF m.selected_field \in acc.used_fields
            THEN [acc EXCEPT !.validation_errors = @ + 1]
            ELSE [acc EXCEPT
                    !.current_decisions[m.column_name] =
                      [field_type |-> m.selected_field,
                       confidence |-> manual_confidence,
                       decision_type |-> "manual_mapping",
                       resolution_type |-> "manual_selection"],
                    !.applied_mappings = @ \cup {m.column_name},
                    !.used_fields = @ \cup {m.selected_field}],
            Tail(mappings))

validate_mappings(ud, mappings) ==
  apply_mappings([current_decisions |-> ud, applied_mappings |-> {},
                  used_fields |-> mapped_fields(ud), validation_errors |-> 0],
                 mappings)

\* a validation that reports no error
validate_nothing(r) == FALSE

\* the test `if validation_errors`
has_validation_errors(r) == r.validation_errors > 0

\* apply_manual_mapping; the regeneration of the files fails on its import
\* and leaves the stored file paths as they are
\* _regenerate_mapeo_files: the import of IntegratedCSVTransformer, a name
\* csv_transformer does not define, raises inside the try block (as does a
\* missing result path before it), and the except branch returns no file
regenerate_mapeo_files(execution, user_decisions) ==
  [header_file |-> None, detail_file |-> None, report_file |-> None]

apply_manual_mapping(id, mappings) ==
  /\ Idle
  /\ IF ~Known(id)
     THEN /\ resp' = Response("manual", id, HTTP_404)
          /\ store' = store
     ELSE IF ~store[id].mapeo_results.present
     THEN /\ resp' = Response("manual", id, HTTP_400)
          /\ store' = store
     ELSE LET mr == store[id].mapeo_results
              r == validate_mappings(mr.user_decisions, mappings)
          IN IF has_validation_errors(r)
                THEN /\ resp' = Response("manual", id, HTTP_400)
                     /\ store' = store
                ELSE /\ mr.manual_mappings + Cardinality(r.applied_mappings) <= MaxManual
                     /\ resp' = [op |-> "manual", id |-> id, code |-> HTTP_200,
                                 regenerated_files |->
                                   regenerate_mapeo_files(store[id],
                                                          r.current_decisions)]
                     /\ store' = update_execution(store, id,
                           [mapeo_results |->
                              [mr EXCEPT
                                 !.user_decisions = r.current_decisions,
                                 !.manual_mappings =
                                   @ + Cardinality(r.applied_mappings),
                                 !.header_file =
                                   IF resp'.regenerated_files.header_file # None
                                   THEN resp'.regenerated_files.header_file ELSE @,
                                 !.detail_file =
                                   IF resp'.regenerated_files.detail_file # None
                                   THEN resp'.regenerated_files.detail_file ELSE @,
                                 !.report_file =
                                   IF resp'.regenerated_files.report_file # None
                                   THEN resp'.regenerated_files.report_file ELSE @],
                            manual_mapping_required |-> Flag(FALSE),
                            unmapped_fields_count |-> 0])
  /\ UNCHANGED <<pending, running, upload_progress, result_table, mapper, loader, config_hash, scratch, json, tester, blob>>

\* --------------------------------------------------------------- preview
\* a preview that reads the uploaded file at every stage
file_to_preview_any_stage(e) ==
  IF e.result_path # None /\ e.result_path # "" THEN e.result_path
  ELSE e.file_path

\* get_preview: the file the handler reads, None when it raises 400
file_to_preview(e) ==
  IF e.result_path # None /\ e.result_path # "" THEN e.result_path
  ELSE IF e.status = "completed" /\ e.step = "validation" THEN e.file_path
  ELSE None

get_preview(id, file_exists) ==
  /\ Idle
  /\ resp' = Response("preview", id,
               IF ~Known(id) THEN HTTP_404
               ELSE IF file_to_preview(store[id]) = None THEN HTTP_400
               ELSE IF ~file_exists THEN HTTP_404
               ELSE HTTP_200)
  /\ UNCHANGED <<store, pending, running, upload_progress, result_table, mapper, loader, config_hash, scratch, json, tester, blob>>

Next ==
  \/ \E id \in ExecIds, size \in Sizes, ok \in BOOLEAN : upload_file(id, size, ok)
  \/ \E i \in 1..MaxPending : upload_begin(i)
  \/ \E ok \in BOOLEAN : upload_finish(ok)
  \/ \E id \in ExecIds : validate_import(id)
  \/ \E i \in 1..MaxPending : validate_begin(i)
  \/ \E ok \in BOOLEAN : validate_finish(ok)
  \/ \E id \in ExecIds : convert_import(id)
  \/ \E i \in 1..MaxPending : convert_begin(i)
  \/ \E ok \in BOOLEAN, t \in 1..Len(PipelineTables) : convert_finish(ok, t)
  \/ \E id \in ExecIds : start_automatic_mapeo(id)
  \/ \E i \in 1..MaxPending : mapeo_begin(i)
  \/ \E ok \in BOOLEAN, storage_ok \in BOOLEAN : mapeo_finish(ok, storage_ok)
  \/ \E id \in ExecIds : \E mappings \in RequestsFor(id) :
       apply_manual_mapping(id, mappings)
  \/ \E id \in ExecIds, file_exists \in BOOLEAN : get_preview(id, file_exists)

Spec == Init /\ [][Next]_vars

\* ------------------------------------------------------ execution service
\* The execution service on its own: create_coordinated_execution,
\* update_execution, get_coordinated_executions and delete_execution called
\* in any order.  `store` is the execution_store, `resp` the last return.
\* A uuid4 is named after the kind of file it was drawn for.
JournalId == "ld"
LoneSysId == "ss0"
ss_id(parent) == IF parent = "ld" THEN "ld-ss" ELSE "ss0-ss"
ServiceIds == {JournalId, LoneSysId, ss_id(JournalId)}
FileTypes == {"Je", "Sys"}
Parents == {None, JournalId}

\* getattr(execution, name, None)
getattr(rec, name) == IF name \in DOMAIN rec THEN rec[name] ELSE None

\* the id create_coordinated_execution stores the record under
coordinated_id(file_type, parent_execution_id) ==
  IF parent_execution_id # None /\ file_type = "Sys"
  THEN ss_id(parent_execution_id)
  ELSE IF file_type = "Je" THEN JournalId ELSE LoneSysId

\* keyword arguments of the update_execution calls
UpdateKwargs ==
  {[status |-> "processing", step |-> "validation"],
   [status |-> "failed", error |-> "boom"],
   [file_path |-> "blob", file_name |-> "ledger.csv", file_type |-> "Je",
    test_type |-> "libro_diario_import", project_id |-> "p1",
    period |-> "2024", parent_execution_id |-> None],
   [file_path |-> "blob", file_type |-> "Sys",
    parent_execution_id |-> JournalId],
   [result_path |-> "converted", created_at |-> "now"]}

create_coordinated_execution(file_type, parent_execution_id) ==
  LET id == coordinated_id(file_type, parent_execution_id) IN
    /\ (parent_execution_id # None /\ file_type = "Sys") \/ ~Known(id)
    /\ store' = [store EXCEPT ![id] = NewExecution("")]
    /\ resp' = [op |-> "create", id |-> id, code |-> HTTP_200]
    /\ UNCHANGED <<pending, running, upload_progress, result_table, mapper, loader, config_hash, scratch, json, tester, blob>>

update_execution_call(id, kwargs) ==
  /\ IF ~Known(id)
     THEN /\ store' = store
          /\ resp' = [op |-> "update", id |-> id, code |-> HTTP_404]
     ELSE /\ store' = update_execution(store, id, kwargs)
          /\ resp' = [op |-> "update", id |-> id, code |-> HTTP_200]
  /\ UNCHANGED <<pending, running, upload_progress, result_table, mapper, loader, config_hash, scratch, json, tester, blob>>

\* get_execution inside a try whose except passes
lookup(st, id) == IF id \in DOMAIN st /\ st[id].exists THEN id ELSE None

get_coordinated_executions(st, execution_id) ==
  LET empty == [libro_diario |-> None, sumas_saldos |-> None] IN
    IF ~st[execution_id].exists THEN empty
    ELSE LET base_execution == st[execution_id] IN
      IF getattr(base_execution, "file_type") = "Je"
      THEN [libro_diario |-> execution_id,
            sumas_saldos |-> lookup(st, ss_id(execution_id))]
      ELSE IF getattr(base_execution, "file_type") = "Sys"
      THEN LET parent_id == getattr(base_execution, "parent_execution_id") IN
             [libro_diario |-> IF parent_id # None
                               THEN lookup(st, parent_id) ELSE None,
              sumas_saldos |-> execution_id]
      ELSE [libro_diario |-> execution_id, sumas_saldos |-> None]

get_coordinated_call(id) ==
  /\ resp' = [op |-> "get_coordinated", id |-> id,
              result |-> get_coordinated_executions(store, id)]
  /\ UNCHANGED <<store, pending, running, upload_progress, result_table, mapper, loader, config_hash, scratch, json, tester, blob>>

delete_execution(id) ==
  /\ Known(id)
  /\ store' = [store EXCEPT ![id] = NoExec]
  /\ resp' = [op |-> "delete", id |-> id, code |-> HTTP_200]
  /\ UNCHANGED <<pending, running, upload_progress, result_table, mapper, loader, config_hash, scratch, json, tester, blob>>

\* upload_file as the execution store sees it: the record is created, then
\* given its file path and name, or deleted again when storing the file
\* raised
upload_file_coordinated(file_type, parent_execution_id, ok) ==
  LET id == coordinated_id(file_type, parent_execution_id)
      created == [store EXCEPT ![id] = NewExecution("")]
  IN
    /\ (parent_execution_id # None /\ file_type = "Sys") \/ ~Known(id)
    /\ store' = IF ok
                THEN update_execution(created, id,
                       [file_path |-> "blob", file_name |-> original_filename,
                        file_type |-> file_type,
                        parent_execution_id |-> parent_execution_id])
                ELSE [created EXCEPT ![id] = NoExec]
    /\ resp' = [op |-> "upload", id |-> id,
                code |-> IF ok THEN HTTP_200 ELSE HTTP_500]
    /\ UNCHANGED <<pending, running, upload_progress, result_table, mapper, loader, config_hash, scratch, json, tester, blob>>

ServiceInit ==
  /\ store = [id \in ServiceIds |-> NoExec]
  /\ pending = <<>>
  /\ running = NoTask
  /\ resp = Response("none", None, 0)
  /\ upload_progress = [id \in ServiceIds |-> NoTracker]
  /\ result_table = [id \in ServiceIds |-> 0]
  /\ mapper = IdleMapper
  /\ ComponentsAtRest

ServiceNext ==
  \/ \E ft \in FileTypes, parent \in Parents :
       create_coordinated_execution(ft, parent)
  \/ \E id \in ServiceIds, kwargs \in UpdateKwargs :
       update_execution_call(id, kwargs)
  \/ \E id \in ServiceIds : get_coordinated_call(id)
  \/ \E id \in ServiceIds : delete_execution(id)
  \/ \E ft \in FileTypes, parent \in Parents, ok \in BOOLEAN :
       upload_file_coordinated(ft, parent, ok)

SpecService == ServiceInit /\ [][ServiceNext]_vars

\* ------------------------------------------------- dynamic field loader
\* The configuration file is known by its hash, `config_hash`.  A field
\* definition is a code with the version of the configuration it was read
\* from (0 for a core field and for a definition added by hand).  The core
\* fields are cut down to one.
MaxReloads == 2
MaxConfig == 2

core_fields == {"amount"}
Definition(code, version) == [code |-> code, version |-> version]
ManualDefinitions == {Definition("extra", 0)}
codes(cache) == {d.code : d \in cache}

\* _process_field_definitions: the core fields, then the dynamic fields of
\* the configuration
process_field_definitions(config) ==
  {Definition(c, 0) : c \in core_fields} \cup {Definition("custom", config)}

\* how one _load_configuration goes: "ok", "early" when reading the file
\* raises before any definition is built, "late" when the hash of the
\* configuration cannot be computed after the definitions were built
LoadOutcomes == {"ok", "early", "late"}

\* a load that does not restore the backup
load_configuration_no_restore(l, config, outcome) ==
  LET backup == IF l.field_definitions_cache # {}
                THEN l.field_definitions_cache ELSE l.backup_definitions
      loaded == IF outcome = "early" THEN {} ELSE process_field_definitions(config)
  IN IF outcome = "ok"
     THEN [l EXCEPT !.backup_definitions = backup,
                    !.field_definitions_cache = loaded,
                    !.last_config_hash = config,
                    !.reload_count = @ + 1,
                    !.success = "True"]
     ELSE [l EXCEPT !.backup_definitions = backup,
                    !.field_definitions_cache = loaded,
                    !.last_error = "error",
                    !.success = "False"]

\* _load_configuration: the cache is copied to the backup when it is not
\* empty and then cleared; a failure restores the backup, when there is one,
\* and counts as a success
load_configuration(l, config, outcome) ==
  LET backup == IF l.field_definitions_cache # {}
                THEN l.field_definitions_cache ELSE l.backup_definitions
      loaded == IF outcome = "early" THEN {} ELSE process_field_definitions(config)
  IN IF outcome = "ok"
     THEN [l EXCEPT !.backup_definitions = backup,
                    !.field_definitions_cache = loaded,
                    !.last_config_hash = config,
                    !.reload_count = @ + 1,
                    !.success = "True"]
     ELSE IF backup # {}
     THEN [l EXCEPT !.backup_definitions = backup,
                    !.field_definitions_cache = backup,
                    !.last_error = "error",
                    !.success = "True"]
     ELSE [l EXCEPT !.backup_definitions = backup,
                    !.field_definitions_cache = loaded,
                    !.last_error = "error",
                    !.success = "False"]

\* a final status that stays RELOADING when the load failed
status_after_load_stuck(success) ==
  IF success = "True" THEN "ready" ELSE "reloading"

\* LoaderStatus.READY if success else LoaderStatus.ERROR
status_after_load(success) ==
  IF success = "True" THEN "ready" ELSE "error"

\* _should_reload: a hash that cannot be computed means no reload
should_reload(l, config, hash_readable) ==
  /\ l.auto_reload_enabled
  /\ hash_readable
  /\ config # l.last_config_hash

LoaderUnchanged ==
  UNCHANGED <<store, pending, running, resp, upload_progress, result_table,
              mapper, scratch, json, tester, blob>>

\* _initialize, its first statement
initialize_begin ==
  /\ loader.pc = "constructed"
  /\ loader' = [loader EXCEPT !.pc = "loading", !.status = "loading"]
  /\ UNCHANGED config_hash
  /\ LoaderUnchanged

\* _initialize, the rest: mkdir raises, or the load returns
initialize_finish(mkdir_ok, outcome) ==
  /\ loader.pc = "loading"
  /\ outcome = "ok" => loader.reload_count < MaxReloads
  /\ IF ~mkdir_ok
     THEN loader' = [loader EXCEPT !.pc = "idle", !.status = "error",
                                   !.last_error = "error"]
     ELSE LET l == load_configuration(loader, config_hash, outcome)
          IN loader' = [l EXCEPT !.pc = "idle",
                                 !.status = status_after_load(l.success)]
  /\ UNCHANGED config_hash
  /\ LoaderUnchanged

\* reload_configuration up to the call of _load_configuration
reload_begin(force, hash_readable) ==
  /\ loader.pc = "idle"
  /\ IF ~force /\ ~should_reload(loader, config_hash, hash_readable)
     THEN loader' = [loader EXCEPT !.returned = "False"]
     ELSE loader' = [loader EXCEPT !.pc = "reloading",
                                   !.old_status = loader.status,
                                   !.status = "reloading",
                                   !.returned = None]
  /\ UNCHANGED config_hash
  /\ LoaderUnchanged

\* reload_configuration from the call of _load_configuration on;
\* _load_configuration catches every exception itself, so the branch that
\* puts old_status back is never taken
reload_finish(outcome) ==
  /\ loader.pc = "reloading"
  /\ outcome = "ok" => loader.reload_count < MaxReloads
  /\ LET l == load_configuration(loader, config_hash, outcome)
     IN loader' = [l EXCEPT !.pc = "idle",
                            !.status = status_after_load(l.success),
                            !.returned = l.success]
  /\ UNCHANGED config_hash
  /\ LoaderUnchanged

add_field_definition(definition) ==
  /\ loader.pc = "idle"
  /\ loader' = [loader EXCEPT !.field_definitions_cache =
                  {d \in @ : d.code # definition.code} \cup {definition}]
  /\ UNCHANGED config_hash
  /\ LoaderUnchanged

remove_field_definition(field_code) ==
  /\ loader.pc = "idle"
  /\ field_code \in codes(loader.field_definitions_cache)
  /\ loader' = [loader EXCEPT !.field_definitions_cache =
                  {d \in @ : d.code # field_code}]
  /\ UNCHANGED config_hash
  /\ LoaderUnchanged

\* somebody edits the configuration file
change_config ==
  /\ config_hash < MaxConfig
  /\ config_hash' = config_hash + 1
  /\ UNCHANGED loader
  /\ LoaderUnchanged

LoaderInit ==
  /\ store = [id \in ExecIds |-> NoExec]
  /\ pending = <<>>
  /\ running = NoTask
  /\ resp = Response("none", None, 0)
  /\ upload_progress = [id \in ExecIds |-> NoTracker]
  /\ result_table = [id \in ExecIds |-> 0]
  /\ mapper = IdleMapper
  /\ loader \in {NewLoader(auto_reload) : auto_reload \in BOOLEAN}
  /\ config_hash = 1
  /\ scratch = NoStage
  /\ tester = NoTester
  /\ blob = NoBlob
  /\ json = NoValue

\* the loader as the repository uses it: _start_auto_reload_thread has no
\* caller, so every call comes from the one thread that owns the loader
LoaderNext ==
  \/ initialize_begin
  \/ \E mkdir_ok \in BOOLEAN, outcome \in LoadOutcomes :
       initialize_finish(mkdir_ok, outcome)
  \/ \E force \in BOOLEAN, hash_readable \in BOOLEAN :
       reload_begin(force, hash_readable)
  \/ \E outcome \in LoadOutcomes : reload_finish(outcome)
  \/ \E definition \in ManualDefinitions : add_field_definition(definition)
  \/ \E field_code \in {"amount", "custom", "extra"} :
       remove_field_definition(field_code)
  \/ change_config

SpecLoader == LoaderInit /\ [][LoaderNext]_vars

\* ------------------------------------------------- the auto-reload worker
\* _start_auto_reload_thread, called from outside the class
start_auto_reload_thread ==
  /\ loader.pc = "idle"
  /\ loader.reload_thread # "alive"
  /\ loader' = [loader EXCEPT !.reload_thread = "alive"]
  /\ UNCHANGED config_hash
  /\ LoaderUnchanged

\* _auto_reload_worker: one turn of the loop that finds a changed
\* configuration and calls reload_configuration()
auto_reload_worker(outcome) ==
  /\ loader.reload_thread = "alive"
  /\ should_reload(loader, config_hash, TRUE)
  /\ outcome = "ok" => loader.reload_count < MaxReloads
  /\ LET l == load_configuration(loader, config_hash, outcome)
     IN loader' = [l EXCEPT !.status = status_after_load(l.success),
                            !.success = loader.success]
  /\ UNCHANGED config_hash
  /\ LoaderUnchanged

shutdown ==
  /\ loader.pc = "idle"
  /\ loader.reload_thread = "alive"
  /\ loader' = [loader EXCEPT !.reload_thread = "stopped"]
  /\ UNCHANGED config_hash
  /\ LoaderUnchanged

WorkerNext ==
  \/ LoaderNext
  \/ start_auto_reload_thread
  \/ \E outcome \in LoadOutcomes : auto_reload_worker(outcome)
  \/ shutdown

\* a started worker wakes up every reload interval until it is stopped, and
\* a call of the constructor or of reload_configuration runs to its end
SpecLoaderWorker ==
  /\ LoaderInit
  /\ [][WorkerNext]_vars
  /\ WF_vars(\E outcome \in LoadOutcomes : auto_reload_worker(outcome))
  /\ WF_vars(initialize_begin)
  /\ WF_vars(\E mkdir_ok \in BOOLEAN, outcome \in LoadOutcomes :
               initialize_finish(mkdir_ok, outcome))
  /\ WF_vars(\E outcome \in LoadOutcomes : reload_finish(outcome))

\* ---------------------------------------------- scratch files of a stage
\* One call of validate_file, convert_file or run_mapeo at a time.
\* `scratch.files` are the scratch files on the local disk, named by their
\* role; `scratch.held` are the ones a `with` block of the call will remove.
StageKinds == {"validation", "conversion", "mapeo"}

\* the files convert_file acquires with create_temp_file, in order
converted_files == <<"prediction_file", "processed_file", "result_file">>

\* save_results writes output_file and, next to it, a detailed file
save_results(files) == files \cup {"prediction_file", "prediction_file_detailed"}

StagesUnchanged ==
  UNCHANGED <<store, pending, running, resp, upload_progress, result_table,
              mapper, loader, config_hash, json, tester, blob>>

\* validate_file, convert_file, run_mapeo: the call begins
begin_stage(kind) ==
  /\ scratch.pc = "idle"
  /\ scratch' = [scratch EXCEPT !.kind = kind, !.pc = "enter", !.raised = FALSE]
  /\ StagesUnchanged

\* TempFileManager.get_local_file up to its yield: the temporary file is
\* created and the blob is downloaded into it; when the download raises,
\* the finally block removes the file and the call ends
get_local_file(download_ok) ==
  /\ scratch.pc = "enter"
  /\ scratch.held = <<>>
  /\ IF download_ok
     THEN scratch' = [scratch EXCEPT
                        !.held = <<"input_file">>,
                        !.files = @ \cup {"input_file"},
                        !.pc = IF scratch.kind = "conversion"
                               THEN "enter" ELSE "body"]
     ELSE scratch' = [scratch EXCEPT !.pc = "idle", !.kind = "none",
                                     !.raised = TRUE]
  /\ StagesUnchanged

\* TempFileManager.create_temp_file up to its yield
create_temp_file ==
  /\ scratch.pc = "enter"
  /\ scratch.kind = "conversion"
  /\ Len(scratch.held) \in 1..Len(converted_files)
  /\ LET temp_file == converted_files[Len(scratch.held)]
     IN scratch' = [scratch EXCEPT
                      !.held = Append(@, temp_file),
                      !.files = @ \cup {temp_file},
                      !.pc = IF Len(scratch.held) = Len(converted_files)
                             THEN "body" ELSE "enter"]
  /\ StagesUnchanged

\* _perform_validation
perform_validation(ok) ==
  /\ scratch.pc = "body"
  /\ scratch.kind = "validation"
  /\ scratch' = [scratch EXCEPT !.pc = "exit", !.raised = ~ok]
  /\ StagesUnchanged

\* _run_conversion_pipeline and the uploads after it: "rejected" raises
\* before save_results, "saved" raises after it, "done" returns
run_conversion_pipeline(progress) ==
  /\ scratch.pc = "body"
  /\ scratch.kind = "conversion"
  /\ scratch' = [scratch EXCEPT
                   !.pc = "exit",
                   !.raised = progress # "done",
                   !.files = IF progress = "rejected" THEN @
                             ELSE save_results(@)]
  /\ StagesUnchanged

\* run_automatic_mapeo_clean: create_header_detail_csvs writes a header file
\* and a detail file when it has columns for them, the reporter writes the
\* report; the three are made with NamedTemporaryFile(delete=False)
run_automatic_mapeo_process(ok, header, detail) ==
  /\ scratch.pc = "body"
  /\ scratch.kind = "mapeo"
  /\ scratch' = [scratch EXCEPT
                   !.pc = "exit",
                   !.raised = ~ok,
                   !.files = IF ~ok THEN @
                             ELSE @ \cup {"report_file"}
                                    \cup (IF header THEN {"header_file"} ELSE {})
                                    \cup (IF detail THEN {"detail_file"} ELSE {})]
  /\ StagesUnchanged

\* the finally block of the innermost open `with`: its file is removed
exit_context ==
  /\ scratch.pc = "exit"
  /\ scratch.held # <<>>
  /\ LET temp_file == scratch.held[Len(scratch.held)]
         rest == SubSeq(scratch.held, 1, Len(scratch.held) - 1)
     IN scratch' = [scratch EXCEPT
                      !.held = rest,
                      !.files = @ \ {temp_file},
                      !.pc = IF rest = <<>> THEN "idle" ELSE "exit",
                      !.kind = IF rest = <<>> THEN "none" ELSE @]
  /\ StagesUnchanged

StagesInit ==
  /\ store = [id \in ExecIds |-> NoExec]
  /\ pending = <<>>
  /\ running = NoTask
  /\ resp = Response("none", None, 0)
  /\ upload_progress = [id \in ExecIds |-> NoTracker]
  /\ result_table = [id \in ExecIds |-> 0]
  /\ mapper = IdleMapper
  /\ ComponentsAtRest

StagesNext ==
  \/ \E kind \in StageKinds : begin_stage(kind)
  \/ \E download_ok \in BOOLEAN : get_local_file(download_ok)
  \/ create_temp_file
  \/ \E ok \in BOOLEAN : perform_validation(ok)
  \/ \E progress \in {"rejected", "saved", "done"} :
       run_conversion_pipeline(progress)
  \/ \E ok \in BOOLEAN, header \in BOOLEAN, detail \in BOOLEAN :
       run_automatic_mapeo_process(ok, header, detail)
  \/ exit_context

SpecStages == StagesInit /\ [][StagesNext]_vars

\* ------------------------------------------------------- serialization
\* A value is a scalar or a container.  A scalar has its type and its value
\* as text ("nan" and "inf" for the floats that are no numbers); a container
\* has its type and its items in order (a dict by the order of its keys,
\* which the conversion leaves alone).
MaxDepth == 2

Scalar(t, v) == [t |-> t, v |-> v, items |-> <<>>]
Container(t, items) == [t |-> t, v |-> "", items |-> items]
PyNone == Scalar("NoneType", "None")

NumpyScalars ==
  {Scalar("np.integer", "1"), Scalar("np.floating", "1.5"),
   Scalar("np.floating", "nan"), Scalar("np.floating", "inf"),
   Scalar("np.bool_", "True")}

Scalars ==
  NumpyScalars \cup
  {Scalar("int", "1"), Scalar("float", "1.5"), Scalar("float", "nan"),
   Scalar("str", "a"), PyNone}

\* the items a container gets next to the value it wraps
Siblings == {Scalar("float", "nan"), Scalar("np.integer", "1")}

\* ndarray.tolist(): every numpy scalar becomes the Python scalar of the
\* same value, so a nan stays a nan, and every inner array a list
RECURSIVE tolist(_)
tolist(obj) ==
  IF obj.t = "ndarray"
  THEN Container("list", [i \in DOMAIN obj.items |-> tolist(obj.items[i])])
  ELSE IF obj.t = "np.integer" THEN Scalar("int", obj.v)
  ELSE IF obj.t = "np.floating" THEN Scalar("float", obj.v)
  ELSE IF obj.t = "np.bool_" THEN Scalar("bool", obj.v)
  ELSE obj

RECURSIVE convert_numpy_types(_)
convert_numpy_types(obj) ==
  IF obj.t = "np.integer" THEN Scalar("int", obj.v)
  ELSE IF obj.t = "np.floating"
  THEN IF obj.v \in {"nan", "inf"} THEN PyNone ELSE Scalar("float", obj.v)
  ELSE IF obj.t = "np.bool_" THEN Scalar("bool", obj.v)
  ELSE IF obj.t = "ndarray" THEN tolist(obj)
  ELSE IF obj.t \in {"dict", "list", "tuple"}
  THEN Container(obj.t, [i \in DOMAIN obj.items |->
                           convert_numpy_types(obj.items[i])])
  ELSE IF obj.t = "float"
  THEN IF obj.v \in {"nan", "inf"} THEN PyNone ELSE obj
  ELSE obj

safe_json_response(data) == convert_numpy_types(data)

JsonUnchanged ==
  UNCHANGED <<store, pending, running, resp, upload_progress, result_table,
              mapper, loader, config_hash, scratch, tester, blob>>

\* the caller builds its data: the value is put into a dict, list or tuple,
\* alone or before another item
wrap(t, alone, sibling) ==
  /\ json.pc = "data"
  /\ json.depth < MaxDepth
  /\ json' = [json EXCEPT
                !.depth = @ + 1,
                !.data = Container(t, IF alone THEN <<@>> ELSE <<@, sibling>>)]
  /\ JsonUnchanged

\* numbers are put into an array, arrays into an array of one more axis
wrap_array(alone) ==
  /\ json.pc = "data"
  /\ json.depth < MaxDepth
  /\ json.data \in NumpyScalars \/ json.data.t = "ndarray"
  /\ json' = [json EXCEPT
                !.depth = @ + 1,
                !.data = Container("ndarray",
                           IF alone THEN <<@>> ELSE <<@, @>>)]
  /\ JsonUnchanged

\* safe_json_response(data)
respond_once ==
  /\ json.pc = "data"
  /\ json' = [json EXCEPT !.pc = "once", !.once = safe_json_response(json.data)]
  /\ JsonUnchanged

\* safe_json_response of the value just returned
respond_twice ==
  /\ json.pc = "once"
  /\ json' = [json EXCEPT !.pc = "twice", !.twice = safe_json_response(json.once)]
  /\ JsonUnchanged

JsonInit ==
  /\ store = [id \in ExecIds |-> NoExec]
  /\ pending = <<>>
  /\ running = NoTask
  /\ resp = Response("none", None, 0)
  /\ upload_progress = [id \in ExecIds |-> NoTracker]
  /\ result_table = [id \in ExecIds |-> 0]
  /\ mapper = IdleMapper
  /\ loader = NewLoader(TRUE)
  /\ config_hash = 1
  /\ scratch = NoStage
  /\ tester = NoTester
  /\ blob = NoBlob
  /\ \E data \in Scalars :
       json = [pc |-> "data", depth |-> 0, data |-> data,
               once |-> PyNone, twice |-> PyNone]

JsonNext ==
  \/ \E t \in {"dict", "list", "tuple"}, alone \in BOOLEAN, sibling \in Siblings :
       wrap(t, alone, sibling)
  \/ \E alone \in BOOLEAN : wrap_array(alone)
  \/ respond_once
  \/ respond_twice

SpecJson == JsonInit /\ [][JsonNext]_vars

\* -------------------------------------------------- structure prediction
\* DocumentPredict.  A model directory is its base name; the mean of the
\* confidence column a model gives for the file is an integer counting
\* hundredths.
fallback_thr == 70

ModelNames == {"modelo_parent_child", "modelo_header_data", "modelo_lines"}

\* settings.model_dirs: the default first, then other configured lists
ModelDirs ==
  {<<"modelo_parent_child", "modelo_header_data">>,
   <<"modelo_header_data", "modelo_parent_child">>,
   <<"modelo_parent_child">>,
   <<"modelo_lines">>,
   <<"modelo_lines", "modelo_header_data">>,
   <<"modelo_parent_child", "modelo_lines">>}

Means == {25, 50, 69, 70, 85}

\* _guess_roles: the last directory whose name holds "parent" / "header",
\* else the first / the last of the list
guess_roles(model_dirs) ==
  LET parents == {i \in DOMAIN model_dirs : model_dirs[i] = "modelo_parent_child"}
      headers == {i \in DOMAIN model_dirs : model_dirs[i] = "modelo_header_data"}
      last(S) == CHOOSE i \in S : \A j \in S : j <= i
  IN  [parent |-> IF parents # {} THEN model_dirs[last(parents)]
                  ELSE model_dirs[1],
       header |-> IF headers # {} THEN model_dirs[last(headers)]
                  ELSE model_dirs[Len(model_dirs)]]

\* predict_file: which model's predictions fill the result
predict_file(model_dirs, mean_of) ==
  LET role_map == guess_roles(model_dirs)
      parent_dir == role_map["parent"]
      header_dir == role_map["header"]
      mean_parent == mean_of[parent_dir]
  IN  IF mean_parent < fallback_thr /\ header_dir # parent_dir
      THEN [chosen_dir |-> header_dir, chosen_role |-> "DATA-HEADER",
            confidence |-> mean_of[header_dir]]
      ELSE [chosen_dir |-> parent_dir, chosen_role |-> "PARENT-CHILD",
            confidence |-> mean_parent]

PredictUnchanged ==
  UNCHANGED <<store, pending, running, resp, upload_progress, result_table,
              mapper, loader, config_hash, scratch, json, blob>>

\* tester = DocumentPredict(model_dirs=self.settings.model_dirs)
DocumentPredict(model_dirs) ==
  /\ tester.pc \in {"none", "predicted"}
  /\ tester' = [pc |-> "loaded", model_dirs |-> model_dirs]
  /\ PredictUnchanged

\* results_df = tester.predict_file(test_df)
predict_file_call(mean_of) ==
  /\ tester.pc = "loaded"
  /\ tester' = [pc |-> "predicted", model_dirs |-> tester.model_dirs,
                mean_of |-> mean_of,
                chosen |-> predict_file(tester.model_dirs, mean_of)]
  /\ PredictUnchanged

PredictInit ==
  /\ store = [id \in ExecIds |-> NoExec]
  /\ pending = <<>>
  /\ running = NoTask
  /\ resp = Response("none", None, 0)
  /\ upload_progress = [id \in ExecIds |-> NoTracker]
  /\ result_table = [id \in ExecIds |-> 0]
  /\ mapper = IdleMapper
  /\ ComponentsAtRest

PredictNext ==
  \/ \E model_dirs \in ModelDirs : DocumentPredict(model_dirs)
  \/ \E mean_of \in [ModelNames -> Means] : predict_file_call(mean_of)

SpecPredict == PredictInit /\ [][PredictNext]_vars

\* ------------------------------------------------------------ blob names
\* AzureStorageService._get_blob_name.  An execution id is the sequence of
\* its characters; the stem, the file type and the extension are one item
\* each, as nothing looks inside them.
MaxIdLen == 4

IdChars == {"a", "-", "s"}

ss_suffix == <<"-", "s", "s">>

\* the strings a client can send as parent_execution_id
IdStrings == UNION {[1..n -> IdChars] : n \in 1..MaxIdLen}

\* str(uuid.uuid4()): hexadecimal digits and hyphens
Uuids == UNION {[1..n -> {"a", "-"}] : n \in 1..MaxIdLen}

\* the ids create_coordinated_execution gives: a uuid, or the parent id the
\* client sent followed by "-ss"
ExecutionIdStrings == Uuids \cup {parent \o ss_suffix : parent \in IdStrings}

\* str.endswith('-ss')
endswith_ss(s) ==
  Len(s) >= 3 /\ SubSeq(s, Len(s) - 2, Len(s)) = ss_suffix

\* str.replace('-ss', ''): every occurrence, found from the left
RECURSIVE replace_ss(_)
replace_ss(s) ==
  IF Len(s) < 3 THEN s
  ELSE IF SubSeq(s, 1, 3) = ss_suffix THEN replace_ss(SubSeq(s, 4, Len(s)))
  ELSE <<Head(s)>> \o replace_ss(Tail(s))

base_execution_id(execution_id) ==
  IF endswith_ss(execution_id) THEN replace_ss(execution_id) ELSE execution_id

\* the branch taken when an execution id and a file type are given
get_blob_name(stem, extension, execution_id, file_type) ==
  base_execution_id(execution_id) \o <<"_", stem, "_", file_type, extension>>

BlobUnchanged ==
  UNCHANGED <<store, pending, running, resp, upload_progress, result_table,
              mapper, loader, config_hash, scratch, json, tester>>

\* the file of execution X is stored
name_own ==
  /\ blob.pc = "ids"
  /\ blob.own = <<>>
  /\ blob' = [blob EXCEPT
                !.own = get_blob_name("book", ".csv", blob.execution_id,
                                      blob.file_type)]
  /\ BlobUnchanged

\* a file is stored under the companion id X-ss
name_companion ==
  /\ blob.pc = "ids"
  /\ blob.companion = <<>>
  /\ blob' = [blob EXCEPT
                !.companion = get_blob_name("book", ".csv",
                                blob.execution_id \o ss_suffix, blob.file_type)]
  /\ BlobUnchanged

BlobNameInit ==
  /\ store = [id \in ExecIds |-> NoExec]
  /\ pending = <<>>
  /\ running = NoTask
  /\ resp = Response("none", None, 0)
  /\ upload_progress = [id \in ExecIds |-> NoTracker]
  /\ result_table = [id \in ExecIds |-> 0]
  /\ mapper = IdleMapper
  /\ loader = NewLoader(TRUE)
  /\ config_hash = 1
  /\ scratch = NoStage
  /\ json = NoValue
  /\ tester = NoTester
  /\ \E execution_id \in ExecutionIdStrings, file_type \in FileTypes :
       blob = [pc |-> "ids", execution_id |-> execution_id,
               file_type |-> file_type, own |-> <<>>, companion |-> <<>>]

BlobNameNext ==
  \/ name_own
  \/ name_companion

SpecBlobName == BlobNameInit /\ [][BlobNameNext]_vars

\* --------------------------------------------------------- chunked upload
\* AzureStorageService.upload_file_chunked and its two callers: the
\* conversion service, without a progress callback, and the background task
\* of a large upload, whose callback updates the ProgressTracker of the
\* execution.  Sizes and offsets are counted in MiB.
MaxFileMiB == 100

chunk_size == 4
max_single_put_size == 64

Callers == {"conversion", "background"}

\* ProgressTracker.__init__
ProgressTracker ==
  [progress |-> 0, uploaded_bytes |-> 0, total_bytes |-> 0,
   status |-> "starting"]

\* ProgressTracker.update
update(tracker, progress, uploaded, total) ==
  [tracker EXCEPT !.progress = progress, !.uploaded_bytes = uploaded,
                  !.total_bytes = total, !.status = "uploading"]

\* file_stream.read(self.chunk_size) at `offset` overshooting the end
read_whole_chunk(file_size, offset) == chunk_size

\* file_stream.read(self.chunk_size) at `offset`: the length of the chunk
read(file_size, offset) == Min(chunk_size, file_size - offset)

\* (uploaded_bytes / file_size) * 100, its integer part
progress_of(uploaded_bytes, file_size) == (uploaded_bytes * 100) \div file_size

ChunkedUnchanged ==
  UNCHANGED <<store, pending, running, resp, result_table, mapper, loader,
              config_hash, scratch, json, tester>>

\* upload_file_chunked up to the choice of the way: a file of at most
\* max_single_put_size is sent by one upload_blob, which returns or raises
upload_file_chunked(caller, file_size, ok) ==
  /\ blob.pc = "none"
  /\ caller = "background" =>
       file_size > large_file_threshold /\ file_size <= max_file_size
  /\ blob' = [pc |-> IF file_size > max_single_put_size THEN "staging"
                     ELSE IF ok THEN "returned" ELSE "raised",
              caller |-> caller, file_size |-> file_size,
              uploaded_bytes |-> 0, block_list |-> <<>>, staged |-> <<>>,
              calls |-> <<>>, commits |-> <<>>,
              single |-> IF file_size <= max_single_put_size /\ ok
                         THEN 1 ELSE 0]
  /\ upload_progress' =
       IF caller = "background"
       THEN [upload_progress EXCEPT !["e1"] = ProgressTracker]
       ELSE upload_progress
  /\ ChunkedUnchanged

\* one turn of the loop of _upload_large_file_chunked
stage_block(ok) ==
  /\ blob.pc = "staging"
  /\ blob.uploaded_bytes < blob.file_size
  /\ LET chunk == read(blob.file_size, blob.uploaded_bytes)
         block_id == Len(blob.block_list)
         uploaded_bytes == blob.uploaded_bytes + chunk
         progress == progress_of(uploaded_bytes, blob.file_size)
     IN  IF ok
         THEN /\ blob' = [blob EXCEPT
                    !.block_list = Append(@, block_id),
                    !.staged = Append(@, [block_id |-> block_id,
                                          offset |-> blob.uploaded_bytes,
                                          length |-> chunk]),
                    !.uploaded_bytes = uploaded_bytes,
                    !.calls = IF blob.caller = "background"
                              THEN Append(@, progress) ELSE @]
              /\ upload_progress' =
                   IF blob.caller = "background"
                   THEN [upload_progress EXCEPT !["e1"] =
                           update(@, progress, uploaded_bytes, blob.file_size)]
                   ELSE upload_progress
         ELSE /\ blob' = [blob EXCEPT
                    !.pc = "raised",
                    !.block_list = Append(@, block_id)]
              /\ UNCHANGED upload_progress
  /\ ChunkedUnchanged

\* the read returned nothing: the loop ends and the list is committed
commit_block_list(ok) ==
  /\ blob.pc = "staging"
  /\ blob.uploaded_bytes >= blob.file_size
  /\ blob' = IF ok
             THEN [blob EXCEPT !.pc = "returned",
                               !.commits = Append(@, blob.block_list)]
             ELSE [blob EXCEPT !.pc = "raised"]
  /\ UNCHANGED upload_progress
  /\ ChunkedUnchanged

\* upload_large_file_background after upload_file_chunked returned or
\* raised; the conversion service goes on with its own work
caller_resumes ==
  /\ blob.pc \in {"returned", "raised"}
  /\ blob' = [blob EXCEPT !.pc = IF blob.pc = "returned" THEN "done"
                                 ELSE "failed"]
  /\ upload_progress' =
       IF blob.caller = "background"
       THEN [upload_progress EXCEPT !["e1"].status =
               IF blob.pc = "returned" THEN "completed" ELSE "failed"]
       ELSE upload_progress
  /\ ChunkedUnchanged

ChunkedInit ==
  /\ store = [id \in ExecIds |-> NoExec]
  /\ pending = <<>>
  /\ running = NoTask
  /\ resp = Response("none", None, 0)
  /\ upload_progress = [id \in ExecIds |-> NoTracker]
  /\ result_table = [id \in ExecIds |-> 0]
  /\ mapper = IdleMapper
  /\ ComponentsAtRest

ChunkedNext ==
  \/ \E caller \in Callers, file_size \in 1..MaxFileMiB, ok \in BOOLEAN :
       upload_file_chunked(caller, file_size, ok)
  \/ \E ok \in BOOLEAN : stage_block(ok)
  \/ \E ok \in BOOLEAN : commit_block_list(ok)
  \/ caller_resumes

SpecChunked == ChunkedInit /\ [][ChunkedNext]_vars

\* ------------------------------------------- loader read during a load
\* _load_configuration step by step on one thread, as it changes the cache
\* in place under _reload_lock, and get_field_definitions on another
\* thread, which reads the cache without taking the lock.
ReaderUnchanged ==
  UNCHANGED <<store, pending, running, resp, upload_progress, result_table,
              mapper, config_hash, scratch, json, tester, blob>>

\* lines 166-170: the lock is taken, the cache is copied to the backup when
\* it is not empty, and cleared
load_configuration_clear(config) ==
  /\ loader.pc = "idle"
  /\ loader.reload_count < MaxReloads
  /\ loader' = [loader EXCEPT
                  !.pc = "loading",
                  !.config = config,
                  !.before = loader.field_definitions_cache,
                  !.backup_definitions =
                    IF loader.field_definitions_cache # {}
                    THEN loader.field_definitions_cache ELSE @,
                  !.field_definitions_cache = {},
                  !.to_add = process_field_definitions(config)]
  /\ ReaderUnchanged

\* _process_field_definitions: one definition is put into the cache; the
\* core fields come first
load_configuration_add(d) ==
  /\ loader.pc = "loading"
  /\ d \in loader.to_add
  /\ d.code \in core_fields \/ loader.to_add \cap
                                 {Definition(c, 0) : c \in core_fields} = {}
  /\ loader' = [loader EXCEPT
                  !.field_definitions_cache =
                    {e \in @ : e.code # d.code} \cup {d},
                  !.to_add = @ \ {d}]
  /\ ReaderUnchanged

\* the rest of the load: it returns with the lock released, or a step of
\* it raises and the except branch restores the backup when there is one
load_configuration_end(ok) ==
  /\ loader.pc = "loading"
  /\ ok => loader.to_add = {}
  /\ loader' = [loader EXCEPT
                  !.pc = "idle",
                  !.to_add = {},
                  !.reload_count = IF ok THEN @ + 1 ELSE @,
                  !.field_definitions_cache =
                    IF ~ok /\ loader.backup_definitions # {}
                    THEN loader.backup_definitions ELSE @]
  /\ ReaderUnchanged

\* get_field_definitions on the other thread
get_field_definitions ==
  /\ loader' = [loader EXCEPT
                  !.observed =
                    [read |-> TRUE,
                     definitions |-> loader.field_definitions_cache,
                     loading |-> loader.pc = "loading",
                     loaded_before |-> loader.reload_count > 0,
                     before |-> loader.before,
                     after |-> process_field_definitions(loader.config)]]
  /\ ReaderUnchanged

ReaderInit ==
  /\ store = [id \in ExecIds |-> NoExec]
  /\ pending = <<>>
  /\ running = NoTask
  /\ resp = Response("none", None, 0)
  /\ upload_progress = [id \in ExecIds |-> NoTracker]
  /\ result_table = [id \in ExecIds |-> 0]
  /\ mapper = IdleMapper
  /\ loader = [pc |-> "idle", config |-> 1, field_definitions_cache |-> {},
               backup_definitions |-> {}, before |-> {}, to_add |-> {},
               reload_count |-> 0, observed |-> [read |-> FALSE]]
  /\ config_hash = 1
  /\ scratch = NoStage
  /\ tester = NoTester
  /\ blob = NoBlob
  /\ json = NoValue

ReaderNext ==
  \/ \E config \in 1..MaxConfig : load_configuration_clear(config)
  \/ \E d \in UNION {process_field_definitions(config) : config \in 1..MaxConfig} :
       load_configuration_add(d)
  \/ \E ok \in BOOLEAN : load_configuration_end(ok)
  \/ get_field_definitions

SpecLoaderReader == ReaderInit /\ [][ReaderNext]_vars

\* ---------------------------------------------------------------- claims
\* the stage tasks scheduled or running on Execution id
TasksOn(id) ==
  Cardinality({i \in 1..Len(pending) : pending[i].id = id})
    + (IF running.id = id THEN 1 ELSE 0)

\* ------------------------------------------------------------------ C1
\* C1: a convert request on a known Execution schedules a conversion task
\* only when the Execution is `completed` at step `validation`; any other
\* request is answered 400, schedules nothing and leaves the Execution as it
\* was.
C1_ConvertOnlyAfterValidation ==
  [][\A id \in ExecIds :
       (convert_import(id) /\ Known(id)) =>
         IF store[id].status = "completed" /\ store[id].step = "validation"
         THEN pending' = Append(pending, Task("conversion", id))
         ELSE /\ resp'.code = HTTP_400
              /\ pending' = pending
              /\ store' = store]_vars

\* the convert request of a completed Execution that is past validation was
\* refused
C1_Witness ==
  \E id \in ExecIds :
    /\ resp = Response("convert", id, HTTP_400)
    /\ Known(id)
    /\ store[id].status = "completed"
    /\ store[id].step = "conversion_completed"

\* ------------------------------------------------------------------ C2
\* C2: a mapeo request on a known Execution schedules a mapeo task only when
\* the Execution is `completed` at step `conversion_completed` with a
\* result_path; any other request fails, schedules nothing and leaves the
\* Execution as it was.
C2_MapeoOnlyAfterConversion ==
  [][\A id \in ExecIds :
       (start_automatic_mapeo(id) /\ Known(id)) =>
         IF /\ store[id].status = "completed"
            /\ store[id].step = "conversion_completed"
            /\ store[id].result_path # None
         THEN pending' = Append(pending, Task("mapeo", id))
         ELSE /\ resp'.code \in {HTTP_400, HTTP_404}
              /\ pending' = pending
              /\ store' = store]_vars

\* the mapeo request of a completed Execution whose mapeo has already run
\* was refused
C2_Witness ==
  \E id \in ExecIds :
    /\ resp = Response("mapeo", id, HTTP_400)
    /\ Known(id)
    /\ store[id].status = "completed"
    /\ store[id].step \in {"mapeo_completed", "mapeo_completed_manual_required"}

\* ------------------------------------------------------------------ C3
\* C3: whenever a background stage (large-file upload, validation,
\* conversion, mapeo) ends by raising, the Execution is left with `error`
\* set and status `failed`.
C3_StageFailureRecorded ==
  [][\A id \in ExecIds :
       (/\ running.id = id
        /\ \/ upload_finish(FALSE)
           \/ validate_finish(FALSE)
           \/ \E t \in 1..Len(PipelineTables) : convert_finish(FALSE, t)
           \/ \E storage_ok \in BOOLEAN : mapeo_finish(FALSE, storage_ok))
       => /\ store'[id].error # None
          /\ store'[id].status = "failed"]_vars

\* ------------------------------------------------------------------ C4
\* C4: at any time at most one stage background task is scheduled or running
\* on a given Execution.
C4_OneTaskPerExecution == \A id \in ExecIds : TasksOn(id) <= 1

\* ------------------------------------------------------------------ C5
\* C5 as stated: once a validation, conversion or mapeo stage has failed, a
\* request of that same stage is accepted.
C5_RetrySameStage ==
  [][\A id \in ExecIds :
       (Known(id) /\ store[id].status = "failed") =>
         /\ (store[id].error = "Validation error" /\ validate_import(id))
              => resp'.code = HTTP_200
         /\ (store[id].error = "Conversion process error" /\ convert_import(id))
              => resp'.code = HTTP_200
         /\ (store[id].error = "Mapeo error" /\ start_automatic_mapeo(id))
              => resp'.code = HTTP_200]_vars

\* C5 amended: on an Execution whose last stage failed, a validation request
\* is accepted and schedules a validation task, while a convert or a mapeo
\* request is answered 400 and schedules nothing.
C5_RetryFromValidation ==
  [][\A id \in ExecIds :
       (Known(id) /\ store[id].status = "failed") =>
         /\ validate_import(id) =>
              /\ resp'.code = HTTP_200
              /\ pending' = Append(pending, Task("validation", id))
         /\ convert_import(id) =>
              /\ resp'.code = HTTP_400
              /\ pending' = pending
         /\ start_automatic_mapeo(id) =>
              /\ resp'.code = HTTP_400
              /\ pending' = pending]_vars

\* a conversion has failed and the validation asked again is scheduled
C5_Witness ==
  \E id \in ExecIds :
    /\ Known(id)
    /\ store[id].status = "failed"
    /\ store[id].error = "Conversion process error"
    /\ resp = Response("validate", id, HTTP_200)
    /\ \E i \in 1..Len(pending) : pending[i] = Task("validation", id)

\* ------------------------------------------------------------------ C6
\* C6: a manual-mapping request with a decision whose target field an
\* existing decision already claims, or with two decisions on the same target
\* field, fails as a whole and leaves user_decisions and mapeo_results as
\* they were.
C6_ManualMappingAllOrNothing ==
  [][\A id \in ExecIds : \A mappings \in RequestsFor(id) :
       (/\ apply_manual_mapping(id, mappings)
        /\ Known(id)
        /\ store[id].mapeo_results.present
        /\ \/ \E k \in 1..Len(mappings) :
                mappings[k].selected_field
                  \in mapped_fields(store[id].mapeo_results.user_decisions)
           \/ \E j, k \in 1..Len(mappings) :
                j # k /\ mappings[j].selected_field = mappings[k].selected_field)
       => /\ resp'.code = HTTP_400
          /\ store' = store]_vars

\* a request on an Execution that has mapeo results was refused
C6_Witness ==
  \E id \in ExecIds :
    /\ Known(id)
    /\ store[id].mapeo_results.present
    /\ resp = Response("manual", id, HTTP_400)

\* ------------------------------------------------------------------ C7
\* C7: the mapping map_all_columns_with_conflict_resolution returns is
\* injective on field type: no two columns of the final result carry the
\* same field_type.
C7_FinalMappingInjective ==
  mapper.pc = "done" =>
    \A c1, c2 \in 1..Len(mapper.tbl.cols) :
      (/\ c1 # c2
       /\ mapper.final[c1].field_type # None
       /\ mapper.final[c2].field_type # None)
      => mapper.final[c1].field_type # mapper.final[c2].field_type

\* two columns were both given the same field type while the columns were
\* processed, and the global pass has returned one of them
C7_Witness ==
  /\ mapper.pc = "done"
  /\ \E c1, c2 \in 1..Len(mapper.tbl.cols) :
       /\ c1 # c2
       /\ mapper.S.imap[c1] # NoMatch
       /\ mapper.S.imap[c1].field_type = mapper.S.imap[c2].field_type
       /\ mapper.final[c1].field_type # None

\* ------------------------------------------------------------------ C8
\* C8: when a mapeo run finishes with a result, manual_mapping_required is
\* true exactly when a column has no decision, or one of journal_entry_id,
\* amount, posting_date has no decision, or the average confidence of the
\* decisions is below 0.7 (the average of no decision is 0).
C8_ManualMappingRequiredIff ==
  [][\A id \in ExecIds :
       (/\ running = Task("mapeo", id)
        /\ running' = NoTask
        /\ store'[id].status = "completed")
       => LET ud == store'[id].mapeo_results.user_decisions
              cols == 1..Len(PipelineTables[result_table[id]].cols)
              decided == {c \in cols : ud[c].field_type # None}
          IN (store'[id].manual_mapping_required = "True")
             <=> \/ decided # cols
                 \/ {"journal_entry_id", "amount", "posting_date"}
                      \ {ud[c].field_type : c \in decided} # {}
                 \/ decided = {}
                 \/ sum_confidence(ud, decided) < 700 * Cardinality(decided)]_vars

\* a mapeo has finished with every column decided and the flag raised
C8_Witness ==
  \E id \in ExecIds :
    /\ Known(id)
    /\ store[id].step = "mapeo_completed_manual_required"
    /\ store[id].manual_mapping_required = "True"
    /\ store[id].unmapped_fields_count = 0

\* ------------------------------------------------------------------ C9
\* C9 as stated: the mapeo of the balanced ledger Asiento, Fecha, Cuenta,
\* Debe, Haber ends with is_balanced true, manual_mapping_required false and
\* the header, detail and report files present.
C9_LedgerNeedsNoManualMapping ==
  [][\A id \in ExecIds :
       (/\ running = Task("mapeo", id)
        /\ running' = NoTask
        /\ store'[id].status = "completed"
        /\ PipelineTables[result_table[id]] = Ledger)
       => /\ store'[id].mapeo_results.is_balanced
          /\ store'[id].manual_mapping_required = "False"
          /\ store'[id].mapeo_results.header_file # None
          /\ store'[id].mapeo_results.detail_file # None
          /\ store'[id].mapeo_results.report_file # None]_vars

\* C9 amended: the mapeo of that ledger ends with is_balanced true and the
\* header, detail and report files present, and with manual_mapping_required
\* true at step mapeo_completed_manual_required, because no column is mapped
\* to the critical field amount.
C9_LedgerNeedsManualMapping ==
  [][\A id \in ExecIds :
       (/\ running = Task("mapeo", id)
        /\ running' = NoTask
        /\ store'[id].status = "completed"
        /\ PipelineTables[result_table[id]] = Ledger)
       => /\ store'[id].mapeo_results.is_balanced
          /\ store'[id].manual_mapping_required = "True"
          /\ store'[id].step = "mapeo_completed_manual_required"
          /\ store'[id].unmapped_fields_count = 0
          /\ store'[id].mapeo_results.header_file # None
          /\ store'[id].mapeo_results.detail_file # None
          /\ store'[id].mapeo_results.report_file # None]_vars

\* the mapeo of the ledger has finished
C9_Witness ==
  \E id \in ExecIds :
    /\ Known(id)
    /\ result_table[id] # 0
    /\ PipelineTables[result_table[id]] = Ledger
    /\ store[id].status = "completed"
    /\ store[id].mapeo_results.present
    /\ store[id].mapeo_results.manual_mappings = 0
    /\ store[id].mapeo_results.is_balanced

\* ----------------------------------------------------------------- C10
\* C10: an upload whose file exceeds max_file_size is answered 413.
C10_OversizedUploadIs413 ==
  [][\A id \in ExecIds, storage_ok \in BOOLEAN :
       \A size \in Sizes :
         (size > max_file_size /\ upload_file(id, size, storage_ok))
         => resp'.code = HTTP_413]_vars

\* ------------------------------------------------------------------ C11
\* C11: after update_execution on a known id, the Execution holds the
\* supplied value of every recognised field that was passed.
C11_RecognizedFieldsStored ==
  [][\A id \in ServiceIds, kwargs \in UpdateKwargs :
       (Known(id) /\ update_execution_call(id, kwargs))
       => \A k \in DOMAIN kwargs \cap allowed_fields :
            /\ k \in DOMAIN store'[id]
            /\ store'[id][k] = kwargs[k]]_vars

\* ------------------------------------------------------------------ C12
\* C12: when the journal Execution and its `-ss` companion are both in the
\* store, get_coordinated_executions on either id returns both.
C12_BothHalvesReturned ==
  [][\A id \in {JournalId, ss_id(JournalId)} :
       (Known(JournalId) /\ Known(ss_id(JournalId))
          /\ get_coordinated_call(id))
       => resp'.result = [libro_diario |-> JournalId,
                          sumas_saldos |-> ss_id(JournalId)]]_vars

\* ------------------------------------------------------------------ C13
\* C13: a preview request for an Execution whose validation has completed
\* (it is completed at step validation, or it is at a conversion or mapeo
\* step) is answered 200 whenever the stored file exists.
PastValidation(e) ==
  \/ e.status = "completed" /\ e.step = "validation"
  \/ e.step \in {"conversion", "model_prediction", "conversion_completed",
                 "mapeo", "mapeo_completed", "mapeo_failed",
                 "mapeo_completed_manual_required"}

C14_ArtifactsRegenerated ==
  [][\A id \in ExecIds :
       \A mappings \in RequestsFor(id) :
         (apply_manual_mapping(id, mappings) /\ resp'.code = HTTP_200)
         => LET mr == store'[id].mapeo_results
                produced == create_header_detail_csvs(mr.user_decisions)
                regenerated_files == resp'.regenerated_files
            IN /\ regenerated_files.report_file # None
               /\ produced.header_file # None
                    => /\ regenerated_files.header_file # None
                       /\ mr.header_file # None
               /\ produced.detail_file # None
                    => /\ regenerated_files.detail_file # None
                       /\ mr.detail_file # None]_vars

\* ------------------------------------------------------------------ C15
\* C15: the status of the loader changes only along UNINITIALIZED ->
\* LOADING -> READY or ERROR while the constructor runs and along READY or
\* ERROR -> RELOADING -> READY or ERROR while reload_configuration runs, and
\* it is READY or ERROR whenever the constructor or reload_configuration has
\* returned.
C15_StatusPath ==
  [][/\ loader'.status # loader.status
        => \/ /\ loader.pc \in {"constructed", "loading"}
              /\ <<loader.status, loader'.status>> \in
                   {<<"uninitialized", "loading">>, <<"loading", "ready">>,
                    <<"loading", "error">>}
           \/ /\ loader.pc \in {"idle", "reloading"}
              /\ loader.pc # loader'.pc
              /\ <<loader.status, loader'.status>> \in
                   {<<"ready", "reloading">>, <<"error", "reloading">>,
                    <<"reloading", "ready">>, <<"reloading", "error">>}
     /\ loader'.pc = "idle" => loader'.status \in {"ready", "error"}]_vars

C15_Witness ==
  /\ loader.pc = "idle"
  /\ loader.old_status = "error"
  /\ loader.returned = "True"
  /\ loader.status = "ready"

\* ------------------------------------------------------------------ C16
\* C16: when a load fails after an earlier load succeeded, the definitions
\* after the failure are the definitions held just before it and the load
\* counts as a success (status READY).
C16_FailedLoadKeepsDefinitions ==
  [][\A outcome \in {"early", "late"} :
       (/\ loader.reload_count > 0
        /\ reload_finish(outcome) \/ initialize_finish(TRUE, outcome))
       => /\ loader'.field_definitions_cache = loader.field_definitions_cache
          /\ loader'.success = "True"
          /\ loader'.status = "ready"]_vars

\* C16 (amended): a load that fails while the loader holds definitions
\* leaves exactly those definitions and counts as a success; a load that
\* fails while the loader holds none restores the latest backup and counts
\* as a success when there is a backup, and fails with status ERROR when
\* there is none.
C16_FailedLoadRestoresBackup ==
  [][\A outcome \in {"early", "late"} :
       (reload_finish(outcome) \/ initialize_finish(TRUE, outcome))
       => IF loader.field_definitions_cache # {}
          THEN /\ loader'.field_definitions_cache = loader.field_definitions_cache
               /\ loader'.success = "True"
               /\ loader'.status = "ready"
          ELSE IF loader.backup_definitions # {}
          THEN /\ loader'.field_definitions_cache = loader.backup_definitions
               /\ loader'.success = "True"
               /\ loader'.status = "ready"
          ELSE /\ loader'.success = "False"
               /\ loader'.status = "error"]_vars

C16_Witness ==
  /\ loader.pc = "idle"
  /\ loader.reload_count > 0
  /\ loader.last_error # None
  /\ loader.returned = "True"
  /\ loader.status = "ready"
  /\ loader.field_definitions_cache = process_field_definitions(1)
  /\ config_hash = 2

\* ------------------------------------------------------------------ C17
\* C17: when reload_configuration returns False, the status after the call
\* is the status before the call.
C17_FailedReloadKeepsStatus ==
  [][/\ \A outcome \in LoadOutcomes :
          (reload_finish(outcome) /\ loader'.returned = "False")
          => loader'.status = loader.old_status
     /\ \A force \in BOOLEAN, hash_readable \in BOOLEAN :
          (reload_begin(force, hash_readable) /\ loader'.returned = "False")
          => loader'.status = loader.status]_vars

\* ------------------------------------------------------------------ C18
\* C18: with auto-reload enabled, a configuration whose hash differs from
\* the loaded one is eventually picked up, unless the loader is shut down:
\* the hash is loaded, or a reload of it was tried and failed.
C18_ChangedConfigEventuallyReloaded ==
  (/\ loader.auto_reload_enabled
   /\ loader.pc = "idle"
   /\ loader.last_error = None
   /\ config_hash # loader.last_config_hash)
  ~> \/ config_hash = loader.last_config_hash
     \/ loader.last_error # None
     \/ loader.reload_thread = "stopped"

\* ------------------------------------------------------------------ C19
\* C19: whenever no stage call is running, the calls before having returned
\* or raised, no scratch file is left on the local disk.
C19_NoScratchFileLeft ==
  scratch.pc = "idle" => scratch.files = {}

\* ------------------------------------------------------------------ C20
\* C20: applying safe_json_response to what safe_json_response returned
\* gives that same value back.
C20_SafeJsonResponseIdempotent ==
  json.pc = "twice" => json.twice = json.once

\* C21: when the PARENT-CHILD mean is below 0.7 and a distinct HEADER-DATA
\* model exists, predict_file adopts the predictions of the model with the
\* higher mean confidence, and those of PARENT-CHILD when the means are equal.
C21_HigherMeanAdopted ==
  tester.pc = "predicted" =>
    LET role_map == guess_roles(tester.model_dirs)
        mean_parent == tester.mean_of[role_map["parent"]]
        mean_header == tester.mean_of[role_map["header"]]
    IN  (mean_parent < fallback_thr /\ role_map["header"] # role_map["parent"]) =>
          tester.chosen.chosen_dir =
            (IF mean_header > mean_parent THEN role_map["header"]
             ELSE role_map["parent"])

\* C22: the blob names built for an execution id X and for its companion id
\* X-ss, with the same file name and file type, both begin with X followed
\* by the separator: of X-ss only the one trailing "-ss" is removed.
C22_CompanionSharesPrefix ==
  (blob.pc = "ids" /\ blob.own # <<>> /\ blob.companion # <<>>) =>
    LET X == blob.execution_id
        prefix(name) == SubSeq(name, 1, Len(X) + 1)
    IN  /\ prefix(blob.companion) = X \o <<"_">>
        /\ blob.own = blob.companion

\* C23: a payload larger than 64 MiB is staged in consecutive 4 MiB blocks
\* in file order (the last one holding the rest), the progress callback is
\* invoked after every staged block with a non-decreasing percentage that is
\* 100 after the last block, and the block list is committed once, after
\* every block was staged and in staging order; a payload of at most 64 MiB
\* is sent by one single upload.
C23_ChunkedUploadProtocol ==
  blob.pc # "none" =>
    LET n == Len(blob.staged)
        whole == blob.uploaded_bytes = blob.file_size
    IN  /\ \A i \in 1..n :
              /\ blob.staged[i].block_id = i - 1
              /\ blob.staged[i].offset = (i - 1) * chunk_size
              /\ blob.staged[i].length =
                   (IF i * chunk_size <= blob.file_size THEN chunk_size
                    ELSE blob.file_size - (i - 1) * chunk_size)
              /\ blob.staged[i].length > 0
        /\ blob.uploaded_bytes <= blob.file_size
        /\ blob.caller = "background" =>
              /\ Len(blob.calls) = n
              /\ \A i \in 1..n, j \in 1..n :
                   i <= j => blob.calls[i] <= blob.calls[j]
              /\ (whole /\ n > 0) => blob.calls[n] = 100
              /\ \A i \in 1..n : blob.calls[i] = 100 => i = n /\ whole
        /\ Len(blob.commits) <= 1
        /\ blob.commits # <<>> =>
              /\ whole
              /\ blob.commits[1] = [i \in 1..n |-> blob.staged[i].block_id]
        /\ blob.file_size > max_single_put_size =>
              /\ blob.single = 0
              /\ blob.pc \in {"returned", "done"} => Len(blob.commits) = 1
        /\ blob.file_size <= max_single_put_size =>
              /\ n = 0 /\ blob.commits = <<>>
              /\ blob.pc \in {"returned", "done"} => blob.single = 1

\* a file of 67 MiB was uploaded by the background task: sixteen whole
\* blocks and one of 3 MiB were staged and committed
C23_Witness ==
  /\ blob.pc = "done"
  /\ blob.caller = "background"
  /\ blob.file_size = 67
  /\ Len(blob.staged) = 17
  /\ blob.staged[17].length = 3
  /\ Len(blob.commits) = 1

\* C28: whenever the progress tracker of a large upload has the status
\* "completed", its progress is 100 and its uploaded_bytes equals its
\* total_bytes.
C28_CompletedMeansAllUploaded ==
  \A id \in ExecIds :
    upload_progress[id].status = "completed" =>
      /\ upload_progress[id].progress = 100
      /\ upload_progress[id].uploaded_bytes = upload_progress[id].total_bytes

C25_UploadKeepsExistingRecords ==
  [][\A ft \in FileTypes, parent \in Parents, ok \in BOOLEAN :
       upload_file_coordinated(ft, parent, ok)
       => \A id \in ServiceIds : Known(id) => store'[id] = store[id]]_vars

\* C26: whenever the status of an Execution is "completed" its error field
\* is empty: the error of an earlier failed stage does not stay on the
\* Execution once a later stage run has succeeded.
C26_CompletedHasNoError ==
  \A id \in ExecIds :
    (Known(id) /\ store[id].status = "completed") => store[id].error = None

\* C27: whenever an Execution that holds mapeo results has
\* manual_mapping_required equal to False, every source column has a
\* mapping decision and journal_entry_id, amount and posting_date are all
\* among the mapped field types.
C27_NotRequiredMeansComplete ==
  \A id \in ExecIds :
    (/\ Known(id)
     /\ store[id].mapeo_results.present
     /\ store[id].manual_mapping_required = Flag(FALSE))
    => LET ud == store[id].mapeo_results.user_decisions
           cols == 1..Len(PipelineTables[result_table[id]].cols)
       IN /\ \A c \in cols : ud[c].field_type # None
          /\ {"journal_entry_id", "amount", "posting_date"}
               \subseteq {ud[c].field_type : c \in cols}

\* C29: a caller that reads the field definitions while a load is in
\* progress on another thread, after an earlier load has succeeded, sees
\* the complete definitions from before the load or the complete
\* definitions the load produces, never an empty or partly filled set.
C29_ReaderSeesCompleteDefinitions ==
  (/\ loader.observed.read
   /\ loader.observed.loading
   /\ loader.observed.loaded_before)
  => loader.observed.definitions
       \in {loader.observed.before, loader.observed.after}

\* C30: after map_all_columns_with_conflict_resolution has returned, the
\* column that wins a field type in the result is the column the session
\* state of the mapper records as holding that field type: the global pass
\* never reverses a conflict decided while the columns were processed.
C30_GlobalPassKeepsSessionWinner ==
  mapper.pc = "done" =>
    \A c \in 1..Len(mapper.tbl.cols) :
      mapper.final[c].field_type # None
        => mapper.S.used[mapper.final[c].field_type] = c

====
